---------------------------- MODULE Spec2Model ----------------------------
(***************************************************************************)
(* Weekly covered-call pipeline of massive_tracker: the picker             *)
(* (picker.run_weekly_picker), the store tables it writes                  *)
(* (store.DB.upsert_weekly_pick, store.DB.log_weekly_pick_missing) and the *)
(* promotion gate (promotion.promote_from_weekly_picks).                   *)
(*                                                                         *)
(* Number representation.  Python floats are modelled in fixed point:      *)
(*   - prices, strikes, bids, asks, mids: units of 1e-5 dollar (Unit);     *)
(*   - results of round(x * 100.0, 2) (pack cost, premium per 100):        *)
(*     cents;                                                              *)
(*   - yields and rank scores: units of 1e-7 (YieldScale);                 *)
(*   - deltas, scorer metrics (suitability, volatility, drawdown, regime,  *)
(*     downside): hundredths.                                              *)
(* Python None is the integer None (the quantities tested against it are  *)
(* >= 0) and, for strings, the empty string.                               *)
(***************************************************************************)
EXTENDS Integers, Sequences, FiniteSets, TLC

None == 0 - 1

Unit == 100 * 1000

YieldScale == 10 * 1000 * 1000

Abs(x) == IF x < 0 THEN 0 - x ELSE x

Min2(a, b) == IF a < b THEN a ELSE b

(* round(v, 0) of the rational n/d, ties to even (Python's round)          *)
RoundHalfEven(n, d) ==
    LET q == n \div d
        r == n % d
    IN  IF 2 * r < d THEN q
        ELSE IF 2 * r > d THEN q + 1
        ELSE IF q % 2 = 0 THEN q ELSE q + 1

(* round(x * 100.0, 2) for x in units of 1e-5 dollar; the result in cents  *)
Round2Cents(x) == RoundHalfEven(x, Unit \div 10000)

RECURSIVE Pow10(_)
Pow10(k) == IF k = 0 THEN 1 ELSE 10 * Pow10(k - 1)

RECURSIVE Frac(_, _, _)
Frac(r, d, k) ==
    IF k = 0 THEN 0
    ELSE ((10 * r) \div d) * Pow10(k - 1) + Frac((10 * r) % d, d, k - 1)

(* float(n) / float(d) held to 7 decimal places                            *)
FixDiv7(n, d) == (n \div d) * YieldScale + Frac(n % d, d, 7)

(* picker._safe_div; d = 0 or a None operand gives None                    *)
_safe_div(n, d) ==
    IF n # None /\ d # None /\ d # 0 THEN FixDiv7(n, d) ELSE None


(***************************************************************************)
(* Bounds of the model                                                     *)
(***************************************************************************)
NumTickers == 2

MaxTopN == 2

Tickers == 1 .. NumTickers

(***************************************************************************)
(* picker.py: constants                                                    *)
(***************************************************************************)
Lanes == {"SAFE", "SAFE_HIGH", "SAFE_HIGH_PAYOUT", "AGGRESSIVE"}

LANE_SAFE == Lanes

SAFE_CC_THRESHOLD == 59

SAFE_VOL_THRESHOLD == 20

SAFE_MDD_THRESHOLD == 20

SAFE_HIGH_CC_THRESHOLD == 58

SAFE_HIGH_VOL_THRESHOLD == 35

(* LANE_MIN_YIELD, in units of 1e-3                                        *)
LANE_MIN_YIELD(lane) ==
    CASE lane = "SAFE" -> 4
      [] lane = "SAFE_HIGH" -> 6
      [] lane = "SAFE_HIGH_PAYOUT" -> 10
      [] OTHER -> 10

MAX_SPREAD_PCT == 20

DELTA_BAND_LO == 5

DELTA_BAND_HI == 45

(* otm_map of _select_chain_option, in percent                             *)
OtmPct(lane) ==
    CASE lane = "SAFE" -> 2
      [] lane = "SAFE_HIGH" -> 3
      [] lane = "SAFE_HIGH_PAYOUT" -> 4
      [] lane = "AGGRESSIVE" -> 5
      [] OTHER -> 4

(* target_delta of _select_chain_option, in hundredths                     *)
TargetDelta(lane) ==
    CASE lane = "SAFE" -> 20
      [] lane = "SAFE_HIGH" -> 25
      [] lane = "SAFE_HIGH_PAYOUT" -> 30
      [] lane = "AGGRESSIVE" -> 35
      [] OTHER -> 30

(***************************************************************************)
(* picker.py: lane classification.  An oced row is                         *)
(* [has, cc, ann_vol, max_dd] with the metrics in hundredths or None.      *)
(***************************************************************************)
_lane_from_ann_vol(ann_vol, category) ==
    IF ann_vol # None
    THEN IF ann_vol <= 25 THEN "SAFE"
         ELSE IF ann_vol <= 45 THEN "SAFE_HIGH"
         ELSE "AGGRESSIVE"
    ELSE IF category = "ETF" THEN "SAFE"
         ELSE IF category \in {"BANK", "FINTECH", "INFRA"} THEN "SAFE_HIGH"
         ELSE IF category \in {"CRYPTO", "SPEC"} THEN "AGGRESSIVE"
         ELSE "SAFE_HIGH"

_lane_from_metrics(oced) ==
    IF ~oced.has THEN "AGGRESSIVE"
    ELSE IF /\ oced.cc # None /\ oced.ann_vol # None /\ oced.max_dd # None
            /\ oced.cc >= SAFE_CC_THRESHOLD
            /\ oced.ann_vol <= SAFE_VOL_THRESHOLD
            /\ oced.max_dd <= SAFE_MDD_THRESHOLD
         THEN "SAFE"
    ELSE IF /\ oced.cc # None /\ oced.ann_vol # None
            /\ oced.cc >= SAFE_HIGH_CC_THRESHOLD
            /\ oced.ann_vol <= SAFE_HIGH_VOL_THRESHOLD
         THEN "SAFE_HIGH_PAYOUT"
    ELSE IF oced.ann_vol # None THEN _lane_from_ann_vol(oced.ann_vol, "")
    ELSE "AGGRESSIVE"

_resolve_lane(oced) ==
    LET lane == _lane_from_metrics(oced)
    IN  IF lane \notin LANE_SAFE THEN "AGGRESSIVE" ELSE lane

(* lines 503-505 of run_weekly_picker                                      *)
PickerLane(oced, category) ==
    LET lane == _resolve_lane(oced)
    IN  IF lane = "AGGRESSIVE"
        THEN _lane_from_ann_vol(IF oced.has THEN oced.ann_vol ELSE None, category)
        ELSE lane

(***************************************************************************)
(* picker.py: rank score, in units of 1e-7.  An ml row is                  *)
(* [has, move, regime, downside]: move in units of 1e-5 dollar, regime and *)
(* downside in hundredths (downside may be negative, so its absence is     *)
(* has = FALSE).                                                           *)
(***************************************************************************)
_final_rank_score(prem_yield, oced) ==
    LET yield_score == IF prem_yield # None THEN prem_yield ELSE 0
        cc_suit == IF oced.has /\ oced.cc # None THEN oced.cc ELSE 0
        ann_vol == IF oced.has /\ oced.ann_vol # None THEN oced.ann_vol ELSE 0
        max_dd == IF oced.has /\ oced.max_dd # None THEN oced.max_dd ELSE 0
        risk_penalty == ann_vol + max_dd
    IN  2 * yield_score + cc_suit * 100000 - 75000 * risk_penalty

_ml_rank_adjust(ml) ==
    LET regime == IF ml.has THEN ml.regime ELSE 0
        downside == IF ml.has THEN ml.downside ELSE 0
        regime_boost == 5 * regime * 100000
        downside_penalty == 20 * Abs(Min2(downside, 0)) * 100000
    IN  regime_boost - downside_penalty

(* _expected_move, in units of 1e-7 dollar (100 per price unit); the       *)
(* factor sqrt(5/252) = 0.14086 is taken as 141/1000                       *)
_expected_move(price, ml, oced) ==
    IF ml.has /\ ml.move # None THEN 100 * ml.move
    ELSE IF oced.has /\ oced.ann_vol # None
         THEN (((price * oced.ann_vol) \div 10) * 141) \div 100
    ELSE 2 * price

(* stock_ml.select_strike, in units of 1e-8 dollar (1000 per price unit)   *)
select_strike(price, move100, lane) ==
    LET k10 == IF lane = "SAFE" THEN 10
               ELSE IF lane = "SAFE_HIGH_PAYOUT" THEN 9
               ELSE 8
    IN  1000 * price + k10 * move100

(***************************************************************************)
(* picker._select_chain_option.  A quote is                                *)
(* [strike, bid, ask, mid, delta, contract]; the normalised quotes of      *)
(* options_chain carry no "last" key, so q.get("last") is None.            *)
(***************************************************************************)
QuoteLast(q) == None

(* lines 341-355: the mid of a quote, None when it has none                *)
QuoteCallMid(q) ==
    IF q.mid # None THEN q.mid
    ELSE IF q.bid # None /\ q.ask # None THEN (q.bid + q.ask) \div 2
    ELSE IF QuoteLast(q) # None THEN QuoteLast(q)
    ELSE None

(* a loop without the spread filter                                       *)
SpreadNeverTooWide(q) == FALSE

(* lines 359-366: spread_pct > MAX_SPREAD_PCT, for a quote with bid and    *)
(* ask; the divisor is max((ask + bid) / 2, 1e-6)                          *)
SpreadTooWide(q) ==
    /\ q.bid # None
    /\ q.ask # None
    /\ IF q.ask + q.bid > 0
       THEN 200 * (q.ask - q.bid) > MAX_SPREAD_PCT * (q.ask + q.bid)
       ELSE q.ask - q.bid > 0

(* prem_yield of a quote: _safe_div(prem_100, price * 100.0), where        *)
(* price * 100.0 dollars are price / 10 cents                              *)
QuoteYield(q, price) ==
    IF price = 0 THEN None
    ELSE _safe_div(10 * Round2Cents(QuoteCallMid(q)), price)

(* lines 383-384: prem_yield < min_yield, compared exactly                 *)
YieldBelowFloor(q, price, lane) ==
    10 * Round2Cents(QuoteCallMid(q)) * 1000 < LANE_MIN_YIELD(lane) * price

(* lines 332-384: the quote passes every filter of the loop                *)
QuotePasses(q, price, lane) ==
    /\ q.strike # None
    /\ ~(q.strike * 100 < price * (100 + OtmPct(lane)))
    /\ QuoteCallMid(q) # None
    /\ QuoteCallMid(q) > 0
    /\ ~SpreadTooWide(q)
    /\ ~(q.delta # None /\ (q.delta < DELTA_BAND_LO \/ q.delta > DELTA_BAND_HI))
    /\ QuoteYield(q, price) # None
    /\ QuoteYield(q, price) > 0
    /\ ~YieldBelowFloor(q, price, lane)

(* lines 386-399: the candidate built from a passing quote                 *)
Candidate(q, price) ==
    [strike |-> q.strike,
     mid |-> QuoteCallMid(q),
     bid |-> q.bid,
     ask |-> q.ask,
     prem_100 |-> Round2Cents(QuoteCallMid(q)),
     prem_yield |-> QuoteYield(q, price),
     delta |-> q.delta,
     contract |-> q.contract,
     strike_source |-> ""]

Candidates(quotes, price, lane) ==
    LET pass == SelectSeq(quotes, LAMBDA q : QuotePasses(q, price, lane))
    IN  [i \in 1 .. Len(pass) |-> Candidate(pass[i], price)]

(* a key compared on the distance alone                                   *)
KeyLessDistanceOnly(a, b) == a[1] < b[1]

(* min(seq, key = (dist, -prem_yield)): the first element of the least key *)
KeyLess(a, b) ==
    \/ a[1] < b[1]
    \/ a[1] = b[1] /\ a[2] < b[2]

ArgMin(keys) ==
    CHOOSE i \in 1 .. Len(keys) :
        /\ \A j \in 1 .. Len(keys) : ~KeyLess(keys[j], keys[i])
        /\ \A j \in 1 .. (i - 1) : KeyLess(keys[i], keys[j])

NoPick == [strike |-> None, mid |-> None, bid |-> None, ask |-> None,
           prem_100 |-> None, prem_yield |-> None, delta |-> None,
           contract |-> "", strike_source |-> ""]

(* lines 404-424: the choice among the candidates; target1000 is the       *)
(* target_strike argument in units of 1e-8 dollar, 0 when falsy            *)
ChooseCandidate(cands, price, lane, target1000) ==
    LET withDelta == SelectSeq(cands, LAMBDA c : c.delta # None)
    IN  IF Len(withDelta) > 0
        THEN LET keys == [i \in 1 .. Len(withDelta) |->
                            <<Abs(withDelta[i].delta - TargetDelta(lane)),
                              0 - withDelta[i].prem_yield>>]
             IN  [withDelta[ArgMin(keys)] EXCEPT !.strike_source = "delta_target_v1"]
        ELSE LET target == IF target1000 # None /\ target1000 # 0
                           THEN target1000
                           ELSE price * (100 + OtmPct(lane)) * 10
                 keys == [i \in 1 .. Len(cands) |->
                            <<Abs(1000 * cands[i].strike - target),
                              0 - cands[i].prem_yield>>]
             IN  [cands[ArgMin(keys)] EXCEPT !.strike_source = "lane_otm_ranker_v1"]

_select_chain_option(price, lane, target1000, quotes) ==
    IF price = None THEN [picked |-> NoPick, ok |-> FALSE, status |-> "missing_price"]
    ELSE IF Len(quotes) = 0
    THEN [picked |-> NoPick, ok |-> FALSE, status |-> "missing_option_chain"]
    ELSE LET cands == Candidates(quotes, price, lane)
         IN  IF Len(cands) = 0
             THEN [picked |-> NoPick, ok |-> FALSE, status |-> "no_chain_match"]
             ELSE [picked |-> ChooseCandidate(cands, price, lane, target1000),
                   ok |-> TRUE, status |-> "ok"]

(***************************************************************************)
(* State                                                                   *)
(***************************************************************************)
VARIABLES
    pc,                  \* position of run_weekly_picker: "idle", "loop", "done"
    top_n,               \* its top_n argument
    idx,                 \* index of the next ticker of the for loop
    picks,               \* its local list picks
    weekly_picks,        \* table weekly_picks, primary key (ts, ticker)
    weekly_pick_missing, \* table weekly_pick_missing, primary key (ts, ticker, stage)
    audit_math,          \* table audit_math (append only)
    option_chains,       \* table option_chains per ticker, primary key strike
    cur,                 \* what the latest iteration resolved: ticker, price, chain
    ppc,                 \* position of promote_from_weekly_picks
    pargs,               \* its arguments [seed, lane, top_n]
    pcands,              \* its local list picks (filtered, sorted, truncated)
    pidx,                \* index of the next candidate of the for loop
    remaining,           \* its local remaining
    existing_keys,       \* its local existing_keys
    results,             \* its local list results
    runs,                \* the result lists of the completed promotion runs
    option_positions,    \* table option_positions
    promotions,          \* table promotions (append only)
    now,                 \* the wall clock, minutes since midnight UTC of day 0
    chain_calls,         \* what each options_chain.get_option_chain call did
    market_last,         \* table market_last, primary key ticker
    options_last,        \* table options_last, primary key key
    price_bars_1m,       \* table price_bars_1m, primary key (ts, ticker)
    price_res,           \* what the latest picker._price_with_source call read and returned
    thread_pc,           \* position of the receive thread in MassiveWSClient.run
    ws,                  \* whether self.ws holds a WebSocketApp
    is_authenticated,    \* self.is_authenticated
    subscribed_symbols,  \* self.subscribed_symbols
    conn,                \* number of the connection, 0 before the first
    wire,                \* the messages sent and the status events received, oldest first
    close_called,        \* close() was called since the thread started
    at_drop,             \* <<subscribed_symbols>> when the latest connection dropped, else <<>>
    asked_since,         \* the symbols subscribe() was given since the latest connection ended
    last_price,          \* RealTimeTriggerEngine.last_price: symbol -> price of its previous bar, None if none
    last_trigger_ts,     \* RealTimeTriggerEngine.last_trigger_ts: symbol -> time of its latest trigger, None if none
    bar_clock,           \* time.time(), in seconds
    bar_log,             \* the handle_bar calls made so far: what was passed, when, what was returned
    twin_last_price,     \* last_price of a second RealTimeTriggerEngine built with the same strikes and thresholds
    twin_last_trigger_ts,\* last_trigger_ts of the second engine
    twin_clock,          \* time.time() when the second engine is given its bars
    twin_log,            \* the handle_bar calls made on the second engine
    sel_price,           \* the price argument of _select_chain_option
    sel_lane,            \* its lane argument
    sel_target,          \* its target_strike argument, None when not given
    sel_quotes,          \* the quotes a live chain fetch returned
    sel_rows,            \* the option_chains rows of the ticker and expiry
    sel_res,             \* <<result>> of the selection over the live quotes, <<>> before
    sel_cached,          \* <<result>> of the selection over the rows read back from the cache, <<>> before
    run_no,              \* number of the picker run in progress or last finished
    bootstrap_rows,      \* per ticker, the strikes of its option_chains rows written from the flat-file bootstrap
    bootstrap_picks,     \* the tickers whose pick of a run was selected from such rows
    _LAST_CALL_TS,       \* massive_client._LAST_CALL_TS, in seconds
    wall_clock,          \* time.time(), in seconds
    rest_calls,          \* the outbound REST calls made so far: endpoint and time, oldest first
    audit_picks,         \* audit: the weekly_picks table the audit reads
    audit_args,          \* audit: <<top, expiry>> of the audit that ran, <<>> before
    math_rows,           \* audit: math_rows, written to audit_math.csv
    sub_pc,              \* subscribe call: position of the calling thread
    sub_payload,         \* subscribe call: its local payload
    unsub_done,          \* unsubscribe: symbols whose unsubscribe returned, not asked for again since
    universe,            \* table universe: per ticker "absent", "enabled" or "disabled"
    run_tickers          \* run_weekly_picker: its local list tickers

pickerVars == <<pc, top_n, idx, picks, weekly_picks, weekly_pick_missing,
                audit_math, option_chains, cur>>

promoVars == <<ppc, pargs, pcands, pidx, remaining, existing_keys, results,
               runs, option_positions, promotions>>

chainVars == <<now, chain_calls>>

storeVars == <<market_last, options_last, price_bars_1m, price_res>>

wsVars == <<thread_pc, ws, is_authenticated, subscribed_symbols, conn, wire, close_called, at_drop, asked_since>>

trigVars == <<last_price, last_trigger_ts, bar_clock, bar_log>>

(* the groups of the subsystems modelled further down                     *)
twinVars == <<twin_last_price, twin_last_trigger_ts, twin_clock, twin_log>>

selVars == <<sel_price, sel_lane, sel_target, sel_quotes, sel_rows, sel_res, sel_cached>>

rerunVars == <<run_no, bootstrap_rows, bootstrap_picks>>

throttleVars == <<_LAST_CALL_TS, wall_clock, rest_calls>>

auditVars == <<audit_picks, audit_args, math_rows>>

subVars == <<sub_pc, sub_payload>>

unsubVars == <<unsub_done>>

univVars == <<universe, run_tickers>>

laterVars == <<twinVars, selVars, rerunVars, throttleVars, auditVars, subVars, unsubVars, univVars>>

(* promoVars and every later group but the named one                      *)
twinOthers == <<promoVars, selVars, rerunVars, throttleVars, auditVars, subVars, unsubVars, univVars>>

selOthers == <<promoVars, twinVars, rerunVars, throttleVars, auditVars, subVars, unsubVars, univVars>>

rerunOthers == <<promoVars, twinVars, selVars, throttleVars, auditVars, subVars, unsubVars, univVars>>

throttleOthers == <<promoVars, twinVars, selVars, rerunVars, auditVars, subVars, unsubVars, univVars>>

auditOthers == <<promoVars, twinVars, selVars, rerunVars, throttleVars, subVars, unsubVars, univVars>>

subOthers == <<promoVars, twinVars, selVars, rerunVars, throttleVars, auditVars, unsubVars, univVars>>

unsubOthers == <<promoVars, twinVars, selVars, rerunVars, throttleVars, auditVars, subVars, univVars>>

univOthers == <<promoVars, twinVars, selVars, rerunVars, throttleVars, auditVars, subVars, unsubVars>>

restVars == <<chainVars, storeVars, wsVars, trigVars, laterVars>>

vars == <<pc, top_n, idx, picks, weekly_picks, weekly_pick_missing,
          audit_math, option_chains, cur, ppc, pargs, pcands, pidx, remaining,
          existing_keys, results, runs, option_positions, promotions,
          restVars>>

(* the subsystems a specification leaves alone stay as constructed         *)
ChainIdle ==
    /\ now = 0
    /\ chain_calls = <<>>

StoreIdle ==
    /\ market_last = {}
    /\ options_last = {}
    /\ price_bars_1m = {}
    /\ price_res = <<>>

WsIdle ==
    /\ thread_pc = "none"
    /\ ws = FALSE
    /\ is_authenticated = FALSE
    /\ subscribed_symbols = {}
    /\ conn = 0
    /\ wire = <<>>
    /\ close_called = FALSE
    /\ at_drop = <<>>
    /\ asked_since = {}

(* the symbols the trigger engine is given bars for, upper-cased           *)
TriggerSymbols == {"A", "B"}

TrigIdle ==
    /\ last_price = [s \in TriggerSymbols |-> 0 - 1]
    /\ last_trigger_ts = [s \in TriggerSymbols |-> 0 - 1]
    /\ bar_clock = 0
    /\ bar_log = <<>>

TwinIdle ==
    /\ twin_last_price = [s \in TriggerSymbols |-> 0 - 1]
    /\ twin_last_trigger_ts = [s \in TriggerSymbols |-> 0 - 1]
    /\ twin_clock = 0
    /\ twin_log = <<>>

SelIdle ==
    /\ sel_price = 0
    /\ sel_lane = ""
    /\ sel_target = 0
    /\ sel_quotes = <<>>
    /\ sel_rows = {}
    /\ sel_res = <<>>
    /\ sel_cached = <<>>

RerunIdle ==
    /\ run_no = 0
    /\ bootstrap_rows = <<>>
    /\ bootstrap_picks = {}

ThrottleIdle ==
    /\ _LAST_CALL_TS = 0
    /\ wall_clock = 0
    /\ rest_calls = <<>>

AuditIdle ==
    /\ audit_picks = {}
    /\ audit_args = <<>>
    /\ math_rows = <<>>

SubIdle ==
    /\ sub_pc = "idle"
    /\ sub_payload = {}

UnsubIdle ==
    /\ unsub_done = {}

UnivIdle ==
    /\ universe = [t \in {} |-> ""]
    /\ run_tickers = <<>>

LaterIdle == TwinIdle /\ SelIdle /\ RerunIdle /\ ThrottleIdle /\ AuditIdle /\ SubIdle /\ UnsubIdle /\ UnivIdle

(* every later group but the named one is idle                             *)
TwinOthersIdle == SelIdle /\ RerunIdle /\ ThrottleIdle /\ AuditIdle /\ SubIdle /\ UnsubIdle /\ UnivIdle

SelOthersIdle == TwinIdle /\ RerunIdle /\ ThrottleIdle /\ AuditIdle /\ SubIdle /\ UnsubIdle /\ UnivIdle

RerunOthersIdle == TwinIdle /\ SelIdle /\ ThrottleIdle /\ AuditIdle /\ SubIdle /\ UnsubIdle /\ UnivIdle

ThrottleOthersIdle == TwinIdle /\ SelIdle /\ RerunIdle /\ AuditIdle /\ SubIdle /\ UnsubIdle /\ UnivIdle

AuditOthersIdle == TwinIdle /\ SelIdle /\ RerunIdle /\ ThrottleIdle /\ SubIdle /\ UnsubIdle /\ UnivIdle

SubOthersIdle == TwinIdle /\ SelIdle /\ RerunIdle /\ ThrottleIdle /\ AuditIdle /\ UnsubIdle /\ UnivIdle

UnsubOthersIdle == TwinIdle /\ SelIdle /\ RerunIdle /\ ThrottleIdle /\ AuditIdle /\ SubIdle /\ UnivIdle

UnivOthersIdle == TwinIdle /\ SelIdle /\ RerunIdle /\ ThrottleIdle /\ AuditIdle /\ SubIdle /\ UnsubIdle

RestIdle == ChainIdle /\ StoreIdle /\ WsIdle /\ TrigIdle /\ LaterIdle

(***************************************************************************)
(* Inputs of one picker iteration                                          *)
(***************************************************************************)
Quote(strike, bid, ask, mid, delta, contract) ==
    [strike |-> strike, bid |-> bid, ask |-> ask, mid |-> mid,
     delta |-> delta, contract |-> contract]

(* the run timestamp ts = _utc_now() and the expiry of                     *)
(* _pick_expiry_from_contracts: one run, one expiry                        *)
RunTs == "T1"

Expiry == "2026-11-06"

(* universe.get_category for the tickers of the model                      *)
get_category(t) ==
    CASE t = 1 -> "ETF"
      [] t = 2 -> "CRYPTO"
      [] t = 3 -> "BANK"
      [] OTHER -> ""

(* market_last row and get_stock_last_price result for a ticker:           *)
(* [cache_price, cache_fresh, cache_source, live_price, live_source]       *)
PriceCacheHit ==
    [cache_price |-> 10 * Unit, cache_fresh |-> TRUE, cache_source |-> "massive_ws",
     live_price |-> None, live_source |-> "massive_rest:missing"]

PriceCacheNoSource ==
    [cache_price |-> 10 * Unit + 1, cache_fresh |-> TRUE, cache_source |-> "",
     live_price |-> None, live_source |-> "massive_rest:missing"]

PriceLive ==
    [cache_price |-> None, cache_fresh |-> FALSE, cache_source |-> "",
     live_price |-> 10 * Unit + 500, live_source |-> "massive_rest:snapshot_last_trade"]

PriceStaleNoLive ==
    [cache_price |-> 10 * Unit, cache_fresh |-> FALSE, cache_source |-> "massive_ws",
     live_price |-> None, live_source |-> "massive_rest:missing"]

NoOced == [has |-> FALSE, cc |-> None, ann_vol |-> None, max_dd |-> None]

NoMl == [has |-> FALSE, move |-> None, regime |-> 0, downside |-> 0]

(* the external scorer's latest rows and the 1-minute bar count            *)
ScorerNone == [oced |-> NoOced, ml |-> NoMl, bars |-> 0]

ScorerSafe ==
    [oced |-> [has |-> TRUE, cc |-> 60, ann_vol |-> 15, max_dd |-> 10],
     ml |-> [has |-> TRUE, move |-> 30000, regime |-> 10, downside |-> 0 - 5],
     bars |-> 2000]

ScorerMid ==
    [oced |-> [has |-> TRUE, cc |-> 50, ann_vol |-> 30, max_dd |-> 30],
     ml |-> NoMl, bars |-> 150]

(* the price and scorer inputs of one ticker: [pe, sc]                     *)
MarketEnvSet ==
    { [pe |-> PriceCacheHit, sc |-> ScorerSafe],
      [pe |-> PriceCacheNoSource, sc |-> ScorerNone],
      [pe |-> PriceLive, sc |-> ScorerMid],
      [pe |-> PriceStaleNoLive, sc |-> ScorerNone] }

LiveA == <<Quote(1050000, 9500, 10500, 10000, 25, "O:X1050")>>

LiveB == <<Quote(1060000, None, None, 12000, None, "O:X1060")>>

LiveC == <<Quote(950000, 60000, 62000, 61000, 40, "O:X950")>>

LiveD == <<Quote(1050000, 14000, 16000, 15000, 30, "O:X1050"),
           Quote(1100000, 7000, 8000, 7500, 20, "O:X1100")>>

LiveE == <<Quote(1050000, 540000, 560000, 550000, None, "O:X1050")>>

FlatA == <<Quote(1060000, None, None, 12000, None, "")>>

(* what the live chain source and the flat-file bootstrap hold             *)
ChainEnvSet ==
    { [live |-> l, flat |-> <<>>] : l \in {LiveA, LiveB, LiveC, LiveD, LiveE} }
    \cup { [live |-> <<>>, flat |-> f] : f \in {<<>>, FlatA} }

(***************************************************************************)
(* picker._price_with_source                                               *)
(***************************************************************************)
_price_with_source(pe) ==
    IF pe.cache_price # None /\ pe.cache_fresh
    THEN [price |-> pe.cache_price,
          price_source |-> IF pe.cache_source # "" THEN pe.cache_source
                           ELSE "cache_market_last",
          missing_price |-> 0]
    ELSE IF pe.live_price # None
    THEN [price |-> pe.live_price, price_source |-> pe.live_source,
          missing_price |-> 0]
    ELSE [price |-> None, price_source |-> "missing", missing_price |-> 1]

(***************************************************************************)
(* store.DB.get_option_chain / upsert_option_chain_rows and                *)
(* options_chain.get_option_chain.  A cached row is                        *)
(* [strike, bid, ask, mid, ts]; ts is "old" for a row written before the   *)
(* run (fresh or not, as the clock decides) and "new" for a row written    *)
(* during it.                                                              *)
(***************************************************************************)
RECURSIVE SortByStrike(_)
SortByStrike(rows) ==
    IF rows = {} THEN <<>>
    ELSE LET lo == CHOOSE r \in rows : \A o \in rows : r.strike <= o.strike
         IN  <<lo>> \o SortByStrike(rows \ {lo})

(* the dicts DB.get_option_chain returns have no delta and no contract key *)
DbGetOptionChain(rows, oldFresh) ==
    LET live == { r \in rows : r.ts = "new" \/ oldFresh }
        s == SortByStrike(live)
    IN  [i \in 1 .. Len(s) |->
            Quote(s[i].strike, s[i].bid, s[i].ask, s[i].mid, None, "")]

DbUpsertOptionChainRows(rows, quotes) ==
    LET new == { [strike |-> quotes[i].strike, bid |-> quotes[i].bid,
                  ask |-> quotes[i].ask, mid |-> quotes[i].mid, ts |-> "new"] :
                 i \in 1 .. Len(quotes) }
    IN  { r \in rows : \A n \in new : n.strike # r.strike } \cup new

get_option_chain(rows, oldFresh, ce) ==
    LET cached == DbGetOptionChain(rows, oldFresh)
    IN  IF Len(cached) > 0
        THEN [quotes |-> cached, source |-> "cache:option_chain_snapshot",
              rows |-> rows]
        ELSE IF Len(ce.live) > 0
        THEN [quotes |-> ce.live, source |-> "massive_rest:option_chain_snapshot",
              rows |-> DbUpsertOptionChainRows(rows, ce.live)]
        ELSE IF Len(ce.flat) > 0
        THEN [quotes |-> ce.flat, source |-> "flatfile:chain_bootstrap",
              rows |-> DbUpsertOptionChainRows(rows, ce.flat)]
        ELSE [quotes |-> <<>>, source |-> "missing_chain", rows |-> rows]

(* picker._option_source_tag                                               *)
_option_source_tag(chain_source, quotes) ==
    IF Len(quotes) = 0 THEN "none"
    ELSE IF chain_source = "" THEN "massive_rest:chain_snapshot"
    ELSE IF chain_source = "cache:option_chain_snapshot" THEN "cache:option_chain_snapshot"
    ELSE IF chain_source = "flatfile:chain_bootstrap" THEN "flatfile:chain_bootstrap"
    ELSE IF chain_source = "massive_rest:option_chain_snapshot"
    THEN "massive_rest:option_chain_snapshot"
    ELSE chain_source

(***************************************************************************)
(* run_weekly_picker, lines 473-716: one iteration of the ticker loop      *)
(***************************************************************************)
Miss(t, stage, reason, source) ==
    [ts |-> RunTs, ticker |-> t, stage |-> stage, reason |-> reason,
     source |-> source]

Audit(t, stage, field) ==
    [ts |-> RunTs, ticker |-> t, stage |-> stage, field |-> field, ok |-> FALSE]

(* line 506: pack_cost = round(price * 100.0, 2), in cents                 *)
PackCost(price) == Round2Cents(price)

(* premium taken as round(mid, 2), the factor 100 forgotten                *)
Prem100CalcUnscaled(chain_mid) ==
    IF chain_mid = None THEN None ELSE RoundHalfEven(chain_mid, 1000)

(* line 570: prem_100_calc = round(float(chain_mid) * 100.0, 2), in cents  *)
Prem100Calc(chain_mid) ==
    IF chain_mid # None THEN Round2Cents(chain_mid) ELSE None

(* line 598: prem_100_calc == price, both as dollar amounts                *)
PremEqualsPrice(prem_100_calc, price) == prem_100_calc * (Unit \div 100) = price

(* line 609: not (0.0 < prem_yield_calc < 0.50), compared exactly          *)
YieldOutOfRange(prem_100_calc, pack_cost) ==
    ~(0 < prem_100_calc /\ 2 * prem_100_calc < pack_cost)

(* line 620: abs(prem_yield_calc - 0.01) < 1e-6, compared exactly          *)
YieldIsConstant(prem_100_calc, pack_cost) ==
    Abs(100 * prem_100_calc - pack_cost) <= (pack_cost - 1) \div 10000

(* lines 662-715: the pick dict (the columns the store keeps)              *)
BuildPick(t, category, lane, price, price_source, pack_cost, picked, prem_100_calc, prem_yield_calc, chain_source, prem_source, strike_source, base_score, final_score, bar_count, option_source) ==
    [ts |-> RunTs, ticker |-> t, category |-> category, lane |-> lane,
     rank |-> None, score |-> base_score, price |-> price,
     pack_100_cost |-> pack_cost, expiry |-> Expiry, strike |-> picked.strike,
     option_contract |-> picked.contract,
     call_bid |-> picked.bid, call_ask |-> picked.ask, call_mid |-> picked.mid,
     prem_100 |-> prem_100_calc, prem_yield |-> prem_yield_calc,
     premium_100 |-> prem_100_calc, premium_yield |-> prem_yield_calc,
     premium_source |-> IF chain_source # "" THEN chain_source
                        ELSE "massive_rest:option_chain_snapshot",
     strike_source |-> strike_source,
     est_weekly_prem_100 |-> prem_100_calc, prem_yield_weekly |-> prem_yield_calc,
     final_rank_score |-> final_score,
     recommended_expiry |-> Expiry, recommended_strike |-> picked.strike,
     recommended_premium_100 |-> prem_100_calc,
     bars_1m_count |-> bar_count, price_source |-> price_source,
     chain_source |-> IF chain_source # "" THEN chain_source
                      ELSE "massive_rest:option_chain_snapshot",
     prem_source |-> prem_source,
     chain_bid |-> picked.bid, chain_ask |-> picked.ask, chain_mid |-> picked.mid,
     option_source |-> option_source]

NoMiss == Miss(0, "", "", "")

NoAudit == Audit(0, "", "")

(* the locals of the latest iteration: the ticker, the resolved price and, *)
(* when the chain was resolved, its source and length                      *)
Cur(t, price, resolved, chain_source, chain_len) ==
    [ticker |-> t, price |-> price, chain_resolved |-> resolved,
     chain_source |-> chain_source, chain_len |-> chain_len]

NoCur == Cur(0, None, FALSE, "", 0)

Missed(t, stage, reason, source, field, rows, c) ==
    [kind |-> "miss", miss |-> Miss(t, stage, reason, source),
     audit |-> IF field = "" THEN NoAudit ELSE Audit(t, stage, field),
     rows |-> rows, cur |-> c]

(* lines 557-716: from the picked contract to the pick dict or a miss      *)
PremiumStage(t, sc, price, price_source, lane, chain, picked, rows, c) ==
    LET chain_mid == picked.mid
        prem_est == picked.prem_100
        pack_cost == PackCost(price)
        prem_source == "chain_mid"
        strike_source == IF picked.strike_source # "" THEN picked.strike_source
                         ELSE "lane_otm_ranker_v1"
        prem_100_calc == Prem100Calc(chain_mid)
        prem_yield_calc == _safe_div(prem_100_calc, pack_cost)
        base_score == _final_rank_score(prem_yield_calc, sc.oced)
        final_score == base_score + _ml_rank_adjust(sc.ml)
    IN  IF /\ chain_mid = None /\ prem_est # None
           /\ Abs(prem_est * (Unit \div 100) - price) < Unit \div 100
        THEN Missed(t, "premium", "premium_matches_price", chain.source,
                    "premium_100", rows, c)
        ELSE IF chain_mid = None \/ chain_mid <= 0
        THEN Missed(t, "premium", "invalid_mid", chain.source, "call_mid", rows, c)
        ELSE IF prem_100_calc = None \/ PremEqualsPrice(prem_100_calc, price)
        THEN Missed(t, "premium", "invalid_premium", chain.source,
                    "premium_100", rows, c)
        ELSE IF prem_yield_calc = None \/ YieldOutOfRange(prem_100_calc, pack_cost)
        THEN Missed(t, "premium", "invalid_yield", chain.source,
                    "premium_yield", rows, c)
        ELSE IF YieldIsConstant(prem_100_calc, pack_cost)
        THEN Missed(t, "premium", "constant_yield", chain.source,
                    "premium_yield", rows, c)
        ELSE IF price_source = "" \/ chain.source = "" \/ prem_source = ""
                \/ strike_source = ""
        THEN Missed(t, "provenance", "missing_provenance", chain.source,
                    "source_fields", rows, c)
        ELSE [kind |-> "pick", miss |-> NoMiss, audit |-> NoAudit, rows |-> rows,
              cur |-> c,
              pick |-> BuildPick(t, get_category(t), lane, price, price_source,
                                 pack_cost, picked, prem_100_calc,
                                 prem_yield_calc, chain.source, prem_source,
                                 strike_source, base_score, final_score,
                                 sc.bars,
                                 _option_source_tag(chain.source, chain.quotes))]

(* lines 474-555, then PremiumStage                                        *)
ProcessTicker(t, pe, sc, ce, oldFresh, rows) ==
    LET price_info == _price_with_source(pe)
        price == price_info.price
        price_source == price_info.price_source
    IN  IF price = None
        THEN Missed(t, "price", "missing_price", price_source, "price", rows,
                    Cur(t, None, FALSE, "", 0))
        ELSE
        LET lane == PickerLane(sc.oced, get_category(t))
            exp_move == _expected_move(price, sc.ml, sc.oced)
            target_strike == select_strike(price, exp_move, lane)
            chain == get_option_chain(rows, oldFresh, ce)
            sel == _select_chain_option(price, lane, target_strike, chain.quotes)
            c == Cur(t, price, TRUE, chain.source, Len(chain.quotes))
        IN  IF chain.source = "flatfile:chain_bootstrap"
            THEN Missed(t, "chain", "flatfile_fallback_disabled", chain.source,
                        "", chain.rows, c)
            ELSE IF Len(chain.quotes) = 0
            THEN Missed(t, "chain", "missing_chain_snapshot", chain.source,
                        "chain_snapshot", chain.rows, c)
            ELSE IF ~sel.ok
            THEN Missed(t, "selection", sel.status, chain.source, "strike",
                        chain.rows, c)
            ELSE PremiumStage(t, sc, price, price_source, lane, chain,
                              sel.picked, chain.rows, c)

(***************************************************************************)
(* store.DB.log_weekly_pick_missing, log_audit_math, upsert_weekly_pick    *)
(***************************************************************************)
LogWeeklyPickMissing(table, m) ==
    { r \in table : ~(r.ts = m.ts /\ r.ticker = m.ticker /\ r.stage = m.stage) }
    \cup {m}

LogAuditMath(table, a) == table \cup {a}

Coalesce(a, b) == IF a # None THEN a ELSE b

(* row.get(a) or b: a when truthy (not None and not 0)                     *)
OrElse(a, b) == IF a # None /\ a # 0 THEN a ELSE b

(* lines 720-785: the stored row of a pick dict                            *)
WeeklyPickRow(row) ==
    LET expiry == IF row.expiry # "" THEN row.expiry ELSE row.recommended_expiry
        strike == Coalesce(row.strike, row.recommended_strike)
        call_bid == Coalesce(row.call_bid, row.chain_bid)
        call_ask == Coalesce(row.call_ask, row.chain_ask)
        call_mid == Coalesce(row.call_mid, row.chain_mid)
        prem_100 == Coalesce(Coalesce(row.prem_100, row.recommended_premium_100),
                             row.est_weekly_prem_100)
        prem_yield == Coalesce(row.prem_yield, row.prem_yield_weekly)
        premium_100 == Coalesce(row.premium_100, prem_100)
        premium_yield == Coalesce(row.premium_yield, prem_yield)
    IN  [ts |-> row.ts, ticker |-> row.ticker, category |-> row.category,
         lane |-> row.lane, rank |-> row.rank, score |-> row.score,
         price |-> row.price, price_source |-> row.price_source,
         pack_100_cost |-> row.pack_100_cost, expiry |-> expiry,
         strike |-> strike, option_contract |-> row.option_contract,
         call_bid |-> call_bid, call_ask |-> call_ask, call_mid |-> call_mid,
         prem_100 |-> prem_100, prem_yield |-> prem_yield,
         premium_100 |-> premium_100, premium_yield |-> premium_yield,
         premium_source |-> row.premium_source,
         strike_source |-> row.strike_source,
         est_weekly_prem_100 |-> OrElse(row.est_weekly_prem_100, prem_100),
         prem_yield_weekly |-> OrElse(row.prem_yield_weekly, prem_yield),
         final_rank_score |-> row.final_rank_score,
         recommended_expiry |-> IF row.recommended_expiry # ""
                                THEN row.recommended_expiry ELSE expiry,
         recommended_strike |-> OrElse(row.recommended_strike, strike),
         bars_1m_count |-> row.bars_1m_count,
         chain_source |-> row.chain_source, prem_source |-> row.prem_source]

(* INSERT OR REPLACE INTO weekly_picks                                     *)
UpsertWeeklyPick(table, row) ==
    LET data == WeeklyPickRow(row)
    IN  { r \in table : ~(r.ts = data.ts /\ r.ticker = data.ticker) } \cup {data}

RECURSIVE UpsertAll(_, _, _)
UpsertAll(table, rows, i) ==
    IF i > Len(rows) THEN table
    ELSE UpsertAll(UpsertWeeklyPick(table, rows[i]), rows, i + 1)

(***************************************************************************)
(* run_weekly_picker, lines 718-735: rank and persist                      *)
(***************************************************************************)
(* line 718-724: the indices of picks that are valid                       *)
ValidIdx(ps) ==
    { i \in 1 .. Len(ps) :
        ps[i].price # None /\ ps[i].strike # None /\ ps[i].call_mid # None }

(* the sort without reverse=True                                           *)
SortPosAscending(ps, i) ==
    1 + Cardinality({ j \in ValidIdx(ps) :
            \/ ps[j].final_rank_score < ps[i].final_rank_score
            \/ ps[j].final_rank_score = ps[i].final_rank_score /\ j < i })

(* line 726: position of pick i in the stable sort by final_rank_score,    *)
(* descending                                                              *)
SortPos(ps, i) ==
    1 + Cardinality({ j \in ValidIdx(ps) :
            \/ ps[j].final_rank_score > ps[i].final_rank_score
            \/ ps[j].final_rank_score = ps[i].final_rank_score /\ j < i })

(* line 727: len(valid[: top_n or len(valid)])                             *)
KeptCount(n, topn) ==
    LET k == IF topn # 0 THEN topn ELSE n
    IN  IF k >= n THEN n
        ELSE IF k >= 0 THEN k
        ELSE IF n + k > 0 THEN n + k ELSE 0

(* lines 729-730: the rank each pick gets, None when it is not kept        *)
RankOf(ps, i, topn) ==
    IF i \in ValidIdx(ps) /\ SortPos(ps, i) <= KeptCount(Cardinality(ValidIdx(ps)), topn)
    THEN SortPos(ps, i)
    ELSE None

Ranked(ps, topn) ==
    [i \in 1 .. Len(ps) |-> [ps[i] EXCEPT !.rank = RankOf(ps, i, topn)]]

(***************************************************************************)
(* Actions of run_weekly_picker                                            *)
(***************************************************************************)
TopNSet == 0 .. MaxTopN

(* what one pass of the loop body reads and writes                        *)
LoopState(ps, missing, audit, chains, c) ==
    [picks |-> ps, weekly_pick_missing |-> missing, audit_math |-> audit,
     option_chains |-> chains, cur |-> c]

(* lines 473-716: the loop body for ticker t, with what it logs            *)
TickerStep(s, t, pe, sc, ce, oldFresh) ==
    LET r == ProcessTicker(t, pe, sc, ce, oldFresh, s.option_chains[t])
    IN  LoopState(
            IF r.kind = "pick" THEN Append(s.picks, r.pick) ELSE s.picks,
            IF r.kind = "miss"
            THEN LogWeeklyPickMissing(s.weekly_pick_missing, r.miss)
            ELSE s.weekly_pick_missing,
            IF r.kind = "miss" /\ r.audit # NoAudit
            THEN LogAuditMath(s.audit_math, r.audit)
            ELSE s.audit_math,
            [s.option_chains EXCEPT ![t] = r.rows],
            r.cur)

(* lines 441-472: the enabled tickers in list_universe order               *)
TickerList == [i \in 1 .. NumTickers |-> i]

PickerStart ==
    /\ pc = "idle"
    /\ \E n \in TopNSet : top_n' = n
    /\ pc' = "loop"
    /\ idx' = 1
    /\ picks' = <<>>
    /\ UNCHANGED <<weekly_picks, weekly_pick_missing, audit_math, option_chains,
                   cur>>
    /\ UNCHANGED promoVars
    /\ UNCHANGED restVars

(* one pass of the loop at lines 473-716, on the inputs the ticker has     *)
PickerIteration(pe, sc, ce, oldFresh) ==
    /\ pc = "loop"
    /\ idx <= Len(TickerList)
    /\ LET n == TickerStep(LoopState(picks, weekly_pick_missing, audit_math,
                                     option_chains, cur),
                           TickerList[idx], pe, sc, ce, oldFresh)
       IN  /\ weekly_pick_missing' = n.weekly_pick_missing
           /\ audit_math' = n.audit_math
           /\ picks' = n.picks
           /\ option_chains' = n.option_chains
           /\ cur' = n.cur
    /\ idx' = idx + 1
    /\ UNCHANGED <<pc, top_n, weekly_picks>>
    /\ UNCHANGED promoVars
    /\ UNCHANGED restVars

PickerTicker ==
    \E me \in MarketEnvSet, ce \in ChainEnvSet, oldFresh \in BOOLEAN :
        PickerIteration(me.pe, me.sc, ce, oldFresh)

PickerFinish ==
    /\ pc = "loop"
    /\ idx > Len(TickerList)
    /\ picks' = Ranked(picks, top_n)
    /\ weekly_picks' = UpsertAll(weekly_picks, Ranked(picks, top_n), 1)
    /\ pc' = "done"
    /\ UNCHANGED <<top_n, idx, weekly_pick_missing, audit_math, option_chains,
                   cur>>
    /\ UNCHANGED promoVars
    /\ UNCHANGED restVars

(* rows an earlier run left in option_chains for the first ticker          *)
OldCacheRows ==
    { [strike |-> FlatA[i].strike, bid |-> FlatA[i].bid, ask |-> FlatA[i].ask,
       mid |-> FlatA[i].mid, ts |-> "old"] : i \in 1 .. Len(FlatA) }

PromoIdle ==
    /\ ppc = "idle"
    /\ pargs = [seed |-> 0, lane |-> "", top_n |-> 0]
    /\ pcands = <<>>
    /\ pidx = 1
    /\ remaining = 0
    /\ existing_keys = {}
    /\ results = <<>>
    /\ runs = <<>>
    /\ option_positions = {}
    /\ promotions = <<>>

Init ==
    /\ pc = "idle"
    /\ top_n = 0
    /\ idx = 1
    /\ picks = <<>>
    /\ weekly_picks = {}
    /\ weekly_pick_missing = {}
    /\ audit_math = {}
    /\ option_chains \in { [t \in Tickers |-> {}],
                           [t \in Tickers |-> IF t = 1 THEN OldCacheRows ELSE {}] }
    /\ cur = NoCur
    /\ PromoIdle
    /\ RestIdle

Next == PickerStart \/ PickerTicker \/ PickerFinish

Spec == Init /\ [][Next]_vars


(***************************************************************************)
(* promotion.promote_from_weekly_picks with store.fetch_latest_weekly_picks,*)
(* store.log_promotion and watchlist.Watchlists.add_contract.  The seed,   *)
(* the pack cost and the remaining budget are in cents.                    *)
(***************************************************************************)
MaxRuns == 2

MIN_BARS == 120

UNRANKED == 9999

(* line 111: 0.002 in units of 1e-7                                        *)
MinPromoYield == 2 * (YieldScale \div 1000)

(* round(x, 2) of a strike in units of 1e-5 dollar                         *)
Round2(x) == RoundHalfEven(x, Unit \div 100) * (Unit \div 100)

(* the order of the ts strings MAX(ts) compares                            *)
TsOrder(ts) == IF ts = RunTs THEN 1 ELSE 0

(* ORDER BY rank ASC, ticker ASC: SQLite puts a NULL rank first            *)
FetchOrderLess(a, b) ==
    \/ a.rank = None /\ b.rank # None
    \/ a.rank # None /\ b.rank # None /\ a.rank < b.rank
    \/ a.rank = b.rank /\ a.ticker < b.ticker

fetch_latest_weekly_picks(table) ==
    LET latest == { r \in table : \A o \in table : TsOrder(o.ts) <= TsOrder(r.ts) }
        pos(r) == 1 + Cardinality({ o \in latest : FetchOrderLess(o, r) })
    IN  [i \in 1 .. Cardinality(latest) |-> CHOOSE r \in latest : pos(r) = i]

(* lines 45-46: lane is "" for None                                        *)
LaneMatches(pick, lane) ==
    lane = "" \/ lane = "ALL" \/ pick.lane = lane

(* line 48: the sort key (rank or 9999, -(final_rank_score or score or 0)) *)
PromoSortKey(p) ==
    <<OrElse(p.rank, UNRANKED),
      0 - OrElse(p.final_rank_score, OrElse(p.score, 0))>>

PromoKeyLess(a, b) ==
    LET ka == PromoSortKey(a)
        kb == PromoSortKey(b)
    IN  ka[1] < kb[1] \/ (ka[1] = kb[1] /\ ka[2] < kb[2])

(* list.sort is stable                                                     *)
PromoSorted(seq) ==
    LET pos(i) == 1 + Cardinality({ j \in 1 .. Len(seq) :
                        \/ PromoKeyLess(seq[j], seq[i])
                        \/ ~PromoKeyLess(seq[i], seq[j]) /\ j < i })
    IN  [k \in 1 .. Len(seq) |-> seq[CHOOSE i \in 1 .. Len(seq) : pos(i) = k]]

(* lines 49-50: picks[:top_n] when top_n is truthy                         *)
Truncate(seq, n) ==
    IF n = 0 THEN seq
    ELSE IF n > 0 THEN SubSeq(seq, 1, Min2(n, Len(seq)))
    ELSE SubSeq(seq, 1, IF Len(seq) + n > 0 THEN Len(seq) + n ELSE 0)

(* lines 43-50: the candidates of a run, in the order they are evaluated   *)
PromoCandidates(table, lane, n) ==
    Truncate(PromoSorted(SelectSeq(fetch_latest_weekly_picks(table),
                                   LAMBDA p : LaneMatches(p, lane))), n)

(* lines 56-66: the keys of the OPEN positions                             *)
OpenKeys(positions) ==
    { <<p.ticker, p.expiry, p.right, p.strike>> :
        p \in { q \in positions : q.status = "OPEN" } }

(* add_contract taking the keywords the promotion passes                   *)
AddContractParamsWide ==
    {"ticker", "expiry", "right", "strike", "qty", "shares", "stock_basis",
     "premium_open"}

(* watchlist.py line 38: the parameters add_contract accepts               *)
AddContractParams == {"ticker", "expiry", "right", "strike", "qty"}

(* watchlist.py lines 38-50; a keyword the signature does not have raises  *)
(* TypeError before the body runs.  The columns the INSERT leaves out take *)
(* their defaults: shares 100, stock_basis 0, premium_open 0, status OPEN  *)
add_contract(positions, kw) ==
    IF ~(DOMAIN kw \subseteq AddContractParams)
    THEN [raised |-> TRUE, positions |-> positions,
          error |-> "add_contract() got an unexpected keyword argument"]
    ELSE IF kw.right \notin {"C", "P"}
    THEN [raised |-> TRUE, positions |-> positions,
          error |-> "right must be 'C' or 'P'"]
    ELSE [raised |-> FALSE, error |-> "",
          positions |-> positions \cup
              { [id |-> Cardinality(positions) + 1, ticker |-> kw.ticker,
                 expiry |-> kw.expiry, right |-> kw.right, strike |-> kw.strike,
                 qty |-> kw.qty, shares |-> 100, stock_basis |-> 0,
                 premium_open |-> 0, status |-> "OPEN"] }]

(* watchlist.py lines 15-17                                                *)
close_contract(positions, id) ==
    { IF p.id = id THEN [p EXCEPT !.status = "CLOSED"] ELSE p : p \in positions }

(* the comparison of line 103 turned around                                *)
OverSeedFlipped(pack_cost, rem) == pack_cost < rem

(* line 103                                                                *)
OverSeed(pack_cost, rem) == pack_cost > rem

(* the loop left only when the budget is overdrawn                         *)
LoopBreaksStrict(rem) == rem < 0

(* line 162                                                                *)
LoopBreaks(rem) == rem <= 0

(* lines 101-115: the reason of the first gate that fails                  *)
GateReason(ticker, price, pack_cost, rem, key, keys, bar_count, recommended_strike, prem_yield) ==
    IF ticker = 0 \/ price = None \/ pack_cost = None THEN "missing_price"
    ELSE IF OverSeed(pack_cost, rem) THEN "over_seed"
    ELSE IF key \in keys THEN "already_open"
    ELSE IF bar_count # None /\ bar_count < MIN_BARS THEN "insufficient_bars"
    ELSE IF recommended_strike # None /\ price # None /\ recommended_strike < price
    THEN "strike_below_spot"
    ELSE IF prem_yield # None /\ prem_yield < MinPromoYield THEN "low_yield"
    ELSE "passed_gates"

(* the dataclass PromotionResult, lines 19-29                              *)
PromotionResult(ticker, expiry, strike, decision, reason, pack_cost, prem_est) ==
    [ticker |-> ticker, expiry |-> expiry, strike |-> strike,
     qty |-> IF decision = "promote" THEN 1 ELSE 0,
     skipped |-> decision # "promote", reason |-> reason, decision |-> decision,
     pack_cost |-> pack_cost, premium_open |-> prem_est]

(* store.log_promotion: a plain INSERT; ts is the clock of the run, the    *)
(* number of the run here                                                  *)
log_promotion(table, ts, ticker, expiry, strike, lane, seed, decision, reason, sources) ==
    Append(table, [id |-> Len(table) + 1, ts |-> ts, ticker |-> ticker,
                   expiry |-> expiry, strike |-> strike, lane |-> lane,
                   seed |-> seed, decision |-> decision, reason |-> reason,
                   sources_json |-> sources])

(* lines 81-163: the loop body for one pick                                *)
PromoteOne(pick, args, rem, keys, positions, run) ==
    LET ticker == pick.ticker
        price == pick.price
        pack_cost == pick.pack_100_cost
        prem_est == Coalesce(pick.prem_100, pick.est_weekly_prem_100)
        prem_yield == Coalesce(pick.prem_yield, pick.prem_yield_weekly)
        bar_count == OrElse(pick.bars_1m_count, 0)
        recommended_strike == Coalesce(pick.strike, pick.recommended_strike)
        rec_expiry == IF pick.expiry # "" THEN pick.expiry
                      ELSE IF pick.recommended_expiry # ""
                      THEN pick.recommended_expiry ELSE Expiry
        lane_used == IF pick.lane # "" THEN pick.lane
                     ELSE IF args.lane # "" THEN args.lane ELSE "SAFE_HIGH"
        strike_raw == IF recommended_strike = None /\ price # None
                      THEN select_strike(price, 2 * price, lane_used) \div 1000
                      ELSE recommended_strike
        strike == Round2(IF strike_raw # None THEN strike_raw
                         ELSE IF price # None /\ price # 0
                         THEN (price * 105) \div 100 ELSE 0)
        key == <<ticker, rec_expiry, "C", strike>>
        reason0 == GateReason(ticker, price, pack_cost, rem, key, keys,
                              bar_count, recommended_strike, prem_yield)
        added == add_contract(positions,
                     [ticker |-> ticker, expiry |-> rec_expiry, right |-> "C",
                      strike |-> strike, qty |-> 1, shares |-> 100,
                      stock_basis |-> IF price # None THEN price ELSE 0,
                      premium_open |-> IF prem_est # None THEN prem_est ELSE 0])
        promoted == reason0 = "passed_gates" /\ ~added.raised
        decision == IF reason0 # "passed_gates" THEN "skip"
                    ELSE IF added.raised THEN "error" ELSE "promote"
        reason == IF reason0 = "passed_gates" /\ added.raised THEN added.error
                  ELSE reason0
        sources == <<pick.price_source, pick.chain_source,
                     IF pick.premium_source # "" THEN pick.premium_source
                     ELSE pick.prem_source,
                     pick.strike_source>>
    IN  [positions |-> IF promoted THEN added.positions ELSE positions,
         remaining |-> IF promoted THEN rem - OrElse(pack_cost, 0) ELSE rem,
         existing_keys |-> IF promoted THEN keys \cup {key} ELSE keys,
         ledger |-> [ts |-> run, ticker |-> ticker, expiry |-> rec_expiry,
                     strike |-> strike,
                     lane |-> IF args.lane # "" THEN args.lane ELSE "ALL",
                     seed |-> args.seed, decision |-> decision,
                     reason |-> reason, sources |-> sources],
         result |-> PromotionResult(ticker, rec_expiry, strike, decision,
                                    reason, pack_cost, prem_est)]

(***************************************************************************)
(* Actions of promote_from_weekly_picks                                    *)
(***************************************************************************)
(* the seed in cents: nothing, 930.00 and the default 9300.00              *)
SeedSet == {0, 930 * 100, 9300 * 100}

LaneArgSet == {"SAFE_HIGH", "ALL"}

PromoArgSet ==
    { [seed |-> s, lane |-> l, top_n |-> n] :
        s \in SeedSet, l \in LaneArgSet, n \in TopNSet }

(* lines 41-66; a rerun repeats the arguments of the run before it         *)
PromoStart ==
    /\ ppc = "idle"
    /\ Len(runs) < MaxRuns
    /\ \E a \in PromoArgSet :
        /\ runs = <<>> \/ a = pargs
        /\ pargs' = a
        /\ pcands' = PromoCandidates(weekly_picks, a.lane, a.top_n)
        /\ remaining' = a.seed
    /\ existing_keys' = OpenKeys(option_positions)
    /\ results' = <<>>
    /\ pidx' = 1
    /\ ppc' = "loop"
    /\ UNCHANGED <<runs, option_positions, promotions>>
    /\ UNCHANGED pickerVars
    /\ UNCHANGED restVars

(* lines 81-163: one pass of the loop                                      *)
PromoIter ==
    /\ ppc = "loop"
    /\ pidx <= Len(pcands)
    /\ LET o == PromoteOne(pcands[pidx], pargs, remaining, existing_keys,
                           option_positions, Len(runs) + 1)
       IN  /\ option_positions' = o.positions
           /\ remaining' = o.remaining
           /\ existing_keys' = o.existing_keys
           /\ promotions' = log_promotion(promotions, o.ledger.ts,
                                o.ledger.ticker, o.ledger.expiry,
                                o.ledger.strike, o.ledger.lane, o.ledger.seed,
                                o.ledger.decision, o.ledger.reason,
                                o.ledger.sources)
           /\ results' = Append(results, o.result)
           /\ ppc' = IF LoopBreaks(o.remaining) THEN "break" ELSE "loop"
    /\ pidx' = pidx + 1
    /\ UNCHANGED <<pargs, pcands, runs>>
    /\ UNCHANGED pickerVars
    /\ UNCHANGED restVars

(* line 165: return results, after the last pick or after the break        *)
PromoReturn ==
    /\ ppc = "break" \/ (ppc = "loop" /\ pidx > Len(pcands))
    /\ runs' = Append(runs, [args |-> pargs, results |-> results])
    /\ ppc' = "idle"
    /\ UNCHANGED <<pargs, pcands, pidx, remaining, existing_keys, results,
                   option_positions, promotions>>
    /\ UNCHANGED pickerVars
    /\ UNCHANGED restVars

(* the inputs of the picker run whose picks the promotion reads            *)
PromoInputSet ==
    { [pe |-> PriceLive, sc |-> ScorerMid, ce |-> [live |-> LiveA, flat |-> <<>>]],
      [pe |-> PriceLive, sc |-> ScorerMid, ce |-> [live |-> LiveD, flat |-> <<>>]],
      [pe |-> PriceCacheHit, sc |-> ScorerSafe, ce |-> [live |-> LiveD, flat |-> <<>>]],
      [pe |-> PriceCacheNoSource, sc |-> ScorerNone, ce |-> [live |-> LiveD, flat |-> <<>>]] }

(* a position opened by hand (cli add-contract) on the strike of LiveA, and *)
(* the same position closed again                                          *)
HandOpened ==
    add_contract({}, [ticker |-> 1, expiry |-> Expiry, right |-> "C",
                      strike |-> LiveA[1].strike, qty |-> 1]).positions

PositionsSet == { {}, HandOpened, close_contract(HandOpened, 1) }

(* the loop pass of the picker on those inputs                             *)
PickerTickerPromo ==
    \E i \in PromoInputSet : PickerIteration(i.pe, i.sc, i.ce, FALSE)

(* the pipeline: a picker run on an empty database that holds at most one  *)
(* position, then the promotion runs                                       *)
InitPromo ==
    /\ pc = "idle"
    /\ top_n = 0
    /\ idx = 1
    /\ picks = <<>>
    /\ weekly_picks = {}
    /\ weekly_pick_missing = {}
    /\ audit_math = {}
    /\ option_chains = [t \in Tickers |-> {}]
    /\ cur = NoCur
    /\ option_positions \in PositionsSet
    /\ ppc = "idle"
    /\ pargs = [seed |-> 0, lane |-> "", top_n |-> 0]
    /\ pcands = <<>>
    /\ pidx = 1
    /\ remaining = 0
    /\ existing_keys = {}
    /\ results = <<>>
    /\ runs = <<>>
    /\ promotions = <<>>
    /\ RestIdle

NextPromo ==
    \/ PickerStart
    \/ PickerTickerPromo
    \/ PickerFinish
    \/ (pc = "done" /\ PromoStart)
    \/ PromoIter
    \/ PromoReturn

SpecPromo == InitPromo /\ [][NextPromo]_vars

(***************************************************************************)
(* Properties of run_weekly_picker                                         *)
(***************************************************************************)
PickRowsOf(t) == { r \in weekly_picks : r.ts = RunTs /\ r.ticker = t }

MissRowsOf(t) == { m \in weekly_pick_missing : m.ts = RunTs /\ m.ticker = t }

RunRows == { r \in weekly_picks : r.ts = RunTs }

RowFilled(r) ==
    /\ r.price # None /\ r.pack_100_cost # None /\ r.strike # None
    /\ r.call_bid # None /\ r.call_ask # None /\ r.call_mid # None
    /\ r.premium_100 # None /\ r.premium_yield # None

(* every processed ticker has one pick row or one miss row, never both and *)
(* never neither                                                           *)
PickXorMiss ==
    pc = "done" =>
        \A t \in Tickers :
            \/ Cardinality(PickRowsOf(t)) = 1 /\ MissRowsOf(t) = {}
            \/ /\ PickRowsOf(t) = {}
               /\ Cardinality(MissRowsOf(t)) = 1
               /\ \A m \in MissRowsOf(t) : m.stage # ""

(* a ticker whose chain resolved empty has one miss row of stage "chain"   *)
(* and no pick, and the picks built for the others are all persisted       *)
EmptyChainIsOneChainMiss ==
    /\ (cur.chain_resolved /\ cur.chain_len = 0) =>
           /\ Cardinality(MissRowsOf(cur.ticker)) = 1
           /\ \A m \in MissRowsOf(cur.ticker) : m.stage = "chain"
           /\ \A i \in 1 .. Len(picks) : picks[i].ticker # cur.ticker
           /\ PickRowsOf(cur.ticker) = {}
    /\ pc = "done" =>
           \A i \in 1 .. Len(picks) : PickRowsOf(picks[i].ticker) # {}

(* C1: in one run every processed ticker ends with exactly one pick row or *)
(* exactly one miss row naming the failed stage, never both, never         *)
(* neither, and never a partially filled pick row; a ticker whose chain    *)
(* resolves empty gets one miss row of stage "chain" and no pick, and the  *)
(* other tickers' picks are still persisted.                               *)
PickOrMissNeverPartial ==
    /\ PickXorMiss
    /\ EmptyChainIsOneChainMiss
    /\ \A r \in weekly_picks : RowFilled(r)

(* C2: every persisted weekly_picks row has non-null strike, call_bid,     *)
(* call_ask and call_mid, call_mid > 0, and non-empty price, chain,        *)
(* premium and strike sources.                                             *)
PersistedRowsHaveQuoteAndSources ==
    \A r \in weekly_picks :
        /\ r.strike # None /\ r.call_bid # None /\ r.call_ask # None
        /\ r.call_mid # None /\ r.call_mid > 0
        /\ r.price_source # "" /\ r.chain_source # ""
        /\ r.premium_source # "" /\ r.strike_source # ""

(* C3: for every persisted row premium_100 equals round(call_mid*100, 2)   *)
(* to within 0.01, premium_yield is within 1e-4 of premium_100 over        *)
(* pack_100_cost, and pack_100_cost is the cost of 100 shares at the       *)
(* resolved price (to the cent).                                           *)
PremiumAndYieldMath ==
    \A r \in weekly_picks :
        /\ r.call_mid # None /\ r.premium_100 # None /\ r.premium_yield # None
        /\ r.pack_100_cost # None /\ r.pack_100_cost > 0
        /\ Abs(r.premium_100 - RoundHalfEven(r.call_mid, 10)) < 1
        /\ Abs(r.premium_yield - FixDiv7(r.premium_100, r.pack_100_cost)) + 1
               < YieldScale \div 10000
        /\ Abs(10 * r.pack_100_cost - r.price) < 10

(* a row was persisted whose price is not a whole number of cents, so that *)
(* the pack cost was rounded                                               *)
RoundedPackCostPersisted ==
    \E r \in weekly_picks : r.price % 1000 # 0 /\ r.premium_100 > 0

(* C4: no persisted row has a premium_100 within 0.01 of the resolved      *)
(* price, nor a premium_yield outside (0, 0.5).                            *)
NoPlaceholderPremium ==
    \A r \in weekly_picks :
        /\ Abs(1000 * r.premium_100 - r.price) >= 1000
        /\ r.premium_yield > 0 /\ r.premium_yield < YieldScale \div 2

RankedRows == { r \in RunRows : r.rank # None }

(* a row with a smaller rank never has a lower final rank score            *)
RankFollowsScore ==
    \A a \in RankedRows, b \in RankedRows :
        a.rank < b.rank => a.final_rank_score >= b.final_rank_score

(* C10 as stated: after a run the rows of the run carry ranks exactly 1..n *)
(* (no gaps, no duplicates, no null rank), ordered by final rank score,    *)
(* for every top_n.                                                        *)
RanksExactlyOneToN ==
    pc = "done" =>
        /\ \A r \in RunRows : r.rank # None
        /\ { r.rank : r \in RunRows } = 1 .. Cardinality(RunRows)
        /\ RankFollowsScore

(* C10: after a run with top_n >= 0 that persisted n rows, the m rows with *)
(* the highest final rank score (m = n when top_n is 0 or at least n, else *)
(* m = top_n) carry ranks exactly 1..m without gaps or duplicates, the     *)
(* other n - m rows are persisted with a null rank, a smaller rank never   *)
(* has a lower final rank score, and no unranked row outscores a ranked    *)
(* one.                                                                    *)
RanksOneToKept ==
    pc = "done" =>
        LET n == Cardinality(RunRows)
            m == IF top_n = 0 \/ top_n >= n THEN n ELSE top_n
        IN  /\ Cardinality(RankedRows) = m
            /\ { r.rank : r \in RankedRows } = 1 .. m
            /\ RankFollowsScore
            /\ \A u \in RunRows \ RankedRows, r \in RankedRows :
                   u.final_rank_score <= r.final_rank_score

(* a run with top_n = 1 that persisted two rows of different score         *)
TwoPicksOneRanked ==
    /\ pc = "done" /\ top_n = 1
    /\ \E a \in RunRows, b \in RunRows :
           a.final_rank_score > b.final_rank_score


(***************************************************************************)
(* Properties of promote_from_weekly_picks                                 *)
(***************************************************************************)
(* a step that evaluates the candidate pcands[pidx]                        *)
EvaluatesCandidate == ppc = "loop" /\ pidx <= Len(pcands) /\ pidx' = pidx + 1

CandidateKey(c) == <<c.ticker, c.expiry, "C", c.strike>>

(* no gate of section 4.5 fails for candidate c                            *)
PassesEveryGate(c, rem, keys) ==
    /\ c.price # None /\ c.pack_100_cost # None
    /\ c.pack_100_cost <= rem
    /\ CandidateKey(c) \notin keys
    /\ c.bars_1m_count >= 120
    /\ c.strike >= c.price
    /\ c.prem_yield >= MinPromoYield

(* the reason of the first gate of section 4.5 that fails for c            *)
FirstFailingGate(c, rem, keys) ==
    IF c.price = None \/ c.pack_100_cost = None THEN "missing_price"
    ELSE IF c.pack_100_cost > rem THEN "over_seed"
    ELSE IF CandidateKey(c) \in keys THEN "already_open"
    ELSE IF c.bars_1m_count < 120 THEN "insufficient_bars"
    ELSE IF c.strike < c.price THEN "strike_below_spot"
    ELSE IF c.prem_yield < MinPromoYield THEN "low_yield"
    ELSE "passed_gates"

(* C5: a candidate that passes every gate gets decision "promote", an OPEN *)
(* option_positions row is created for it (ticker, expiry, right C,        *)
(* strike, qty 1, 100 shares, entry basis = price, premium received), the  *)
(* remaining budget decreases by exactly its pack cost, and the loop       *)
(* continues with the next candidate.                                      *)
PassingCandidateIsPromoted ==
    [][ (EvaluatesCandidate
           /\ PassesEveryGate(pcands[pidx], remaining, existing_keys)) =>
          LET c == pcands[pidx]
          IN  /\ results'[pidx].decision = "promote"
              /\ \E p \in option_positions' \ option_positions :
                    /\ p.status = "OPEN" /\ p.ticker = c.ticker
                    /\ p.expiry = c.expiry /\ p.right = "C"
                    /\ p.strike = c.strike /\ p.qty = 1 /\ p.shares = 100
                    /\ p.stock_basis = c.price /\ p.premium_open = c.prem_100
              /\ remaining' = remaining - c.pack_100_cost
              /\ (remaining' > 0 => ppc' = "loop") ]_vars

(* the candidates are in ascending rank order, the unranked ones last      *)
CandidatesInRankOrder ==
    \A i \in 1 .. Len(pcands), j \in 1 .. Len(pcands) :
        i < j => /\ pcands[i].rank # None \/ pcands[j].rank = None
                 /\ (pcands[j].rank # None => pcands[i].rank <= pcands[j].rank)

(* C6: the candidates are evaluated in ascending rank order, each recorded *)
(* reason is that of the first failing gate in the order missing price or  *)
(* pack cost, over budget, duplicate OPEN position, insufficient history,  *)
(* strike below spot, yield below floor, and a candidate is promoted if    *)
(* and only if no gate fails.                                              *)
ReasonIsFirstFailingGate ==
    /\ []CandidatesInRankOrder
    /\ [][ EvaluatesCandidate =>
            LET c == pcands[pidx]
                passes == PassesEveryGate(c, remaining, existing_keys)
            IN  /\ results'[pidx].ticker = c.ticker
                /\ ~passes => results'[pidx].reason =
                       FirstFailingGate(c, remaining, existing_keys)
                /\ (results'[pidx].decision = "promote") <=> passes ]_vars

RECURSIVE SumPromoted(_, _)
(* the pack costs of the promoted results rs[i..]                          *)
SumPromoted(rs, i) ==
    IF i > Len(rs) THEN 0
    ELSE (IF rs[i].decision = "promote" THEN rs[i].pack_cost ELSE 0)
         + SumPromoted(rs, i + 1)

(* C7: with seed >= 0 a candidate whose pack cost exceeds the budget       *)
(* remaining when it is evaluated is never promoted (it is skipped as over *)
(* budget), the remaining budget is never negative, and the pack costs of  *)
(* the promoted candidates sum to at most the seed.                        *)
OverBudgetNeverPromoted ==
    /\ [](pargs.seed >= 0 =>
            /\ remaining >= 0
            /\ SumPromoted(results, 1) <= pargs.seed
            /\ remaining + SumPromoted(results, 1) <= pargs.seed)
    /\ [][ (EvaluatesCandidate /\ pcands[pidx].pack_100_cost # None
              /\ pcands[pidx].pack_100_cost > remaining) =>
             /\ results'[pidx].decision = "skip"
             /\ pcands[pidx].price # None => results'[pidx].reason = "over_seed"
             /\ option_positions' = option_positions
             /\ remaining' = remaining ]_vars

(* a candidate costing more than a positive seed was skipped as over       *)
(* budget                                                                  *)
OverSeedSkipRecorded ==
    \E i \in 1 .. Len(results) :
        /\ pargs.seed > 0
        /\ results[i].pack_cost > pargs.seed
        /\ results[i].decision = "skip"
        /\ results[i].reason = "over_seed"

(* the ledger rows the latest run wrote, in order                          *)
LatestRun == IF ppc = "idle" THEN Len(runs) ELSE Len(runs) + 1

LatestLedger == SelectSeq(promotions, LAMBDA row : row.ts = LatestRun)

LedgerRowFor(row, c) ==
    /\ row.ticker = c.ticker
    /\ row.decision \in {"promote", "skip", "error"}
    /\ row.reason # ""

(* C8 as stated: a finished run has written exactly one ledger row, with a *)
(* decision and a non-empty reason, for every candidate of the filtered    *)
(* and truncated list, also for those after the budget ran out.            *)
EveryCandidateLogged ==
    (ppc = "idle" /\ runs # <<>>) =>
        /\ Len(LatestLedger) = Len(pcands)
        /\ \A i \in 1 .. Len(pcands) : LedgerRowFor(LatestLedger[i], pcands[i])

(* C8: a run writes exactly one ledger row, with a decision and a          *)
(* non-empty reason, for every candidate it evaluates, in order; it        *)
(* evaluates the candidates of the filtered and truncated list up to and   *)
(* including the first after which the remaining budget is <= 0, and the   *)
(* candidates after that one get no row.                                   *)
EveryEvaluatedCandidateLogged ==
    /\ Len(results) <= Len(pcands)
    /\ Len(LatestLedger) = Len(results)
    /\ \A i \in 1 .. Len(results) :
           /\ LedgerRowFor(LatestLedger[i], pcands[i])
           /\ LatestLedger[i].decision = results[i].decision
           /\ LatestLedger[i].reason = results[i].reason
    /\ (ppc = "loop" /\ pidx > 1) => remaining > 0
    /\ ppc = "loop" => Len(results) = pidx - 1
    /\ (ppc = "idle" /\ runs # <<>>) =>
           (Len(results) = Len(pcands) \/ remaining <= 0)

(* a run returned after the first of two candidates                        *)
RunStoppedEarly ==
    /\ ppc = "idle" /\ runs # <<>>
    /\ Len(pcands) = 2 /\ Len(results) = 1 /\ Len(LatestLedger) = 1

Decisions(rs) ==
    [i \in 1 .. Len(rs) |-> <<rs[i].ticker, rs[i].decision, rs[i].reason>>]

(* C9: two runs in a row on the same latest picks with the same lane,      *)
(* top_n and seed return the same sequence of (ticker, decision, reason).  *)
RerunSameDecisions ==
    \A k \in 1 .. Len(runs) - 1 :
        runs[k].args = runs[k + 1].args =>
            Decisions(runs[k].results) = Decisions(runs[k + 1].results)

(* two runs over two candidates, one of which passed every gate            *)
TwoRunsWithPassingCandidate ==
    /\ Len(runs) = 2
    /\ Len(runs[2].results) = 2
    /\ \E i \in 1 .. 2 : runs[1].results[i].decision = "error"
    /\ \E i \in 1 .. 2 : runs[1].results[i].decision = "skip"


(***************************************************************************)
(* The option-chain cache against the clock.                               *)
(*                                                                         *)
(* A timestamp is text.  Both writers use the fixed-width form             *)
(* date, separator, time of day, so text order is decided field by field:  *)
(* <<day, separator, minute of the day>>, the separator by its character   *)
(* code.  options_chain._now_ts is datetime.isoformat(), separator "T";    *)
(* SQLite datetime('now', '-N minutes') has a space there.                 *)
(***************************************************************************)
SepT == 84

SepSpace == 32

MaxAgeMinutes == 60

_now_ts(t) == <<t \div 1440, SepT, t % 1440>>

SqliteDatetime(t, minus) == <<(t - minus) \div 1440, SepSpace, (t - minus) % 1440>>

(* the minute a timestamp text denotes                                     *)
MinuteOf(ts) == ts[1] * 1440 + ts[3]

(* SQLite's comparison of two TEXT values: the first differing field       *)
TextLess(a, b) ==
    \E i \in 1 .. 3 :
        /\ a[i] < b[i]
        /\ \A j \in 1 .. (i - 1) : a[j] = b[j]

TextGE(a, b) == ~TextLess(a, b)

(* store.DB.upsert_option_chain_rows: INSERT OR REPLACE on the key strike  *)
NoUpsertChainRows(rows, quotes, ts) == rows

UpsertChainRows(rows, quotes, ts) ==
    LET new == { [strike |-> quotes[i].strike, bid |-> quotes[i].bid,
                  ask |-> quotes[i].ask, mid |-> quotes[i].mid, ts |-> ts] :
                 i \in 1 .. Len(quotes) }
    IN  { r \in rows : \A n \in new : n.strike # r.strike } \cup new

(* store.DB.get_option_chain: WHERE ts >= datetime('now', '-N minutes')    *)
(* ORDER BY strike ASC                                                     *)
FreshChainRows(rows, t, max_age_minutes) ==
    { r \in rows : TextGE(r.ts, SqliteDatetime(t, Abs(max_age_minutes))) }

(* options_chain.get_option_chain at clock t: what it returns, whether it  *)
(* called the live provider, and the table it leaves                       *)
GetOptionChainAt(rows, t, max_age_minutes, use_cache, ce) ==
    LET hit == IF use_cache THEN FreshChainRows(rows, t, max_age_minutes)
               ELSE {}
        s == SortByStrike(hit)
        cached == [i \in 1 .. Len(s) |->
                      Quote(s[i].strike, s[i].bid, s[i].ask, s[i].mid, None, "")]
    IN  IF Len(cached) > 0
        THEN [quotes |-> cached, source |-> "cache:option_chain_snapshot",
              live_called |-> FALSE, served |-> hit, rows |-> rows]
        ELSE IF Len(ce.live) > 0
        THEN [quotes |-> ce.live,
              source |-> "massive_rest:option_chain_snapshot",
              live_called |-> TRUE, served |-> {},
              rows |-> UpsertChainRows(rows, ce.live, _now_ts(t))]
        ELSE IF Len(ce.flat) > 0
        THEN [quotes |-> ce.flat, source |-> "flatfile:chain_bootstrap",
              live_called |-> TRUE, served |-> {},
              rows |-> UpsertChainRows(rows, ce.flat, _now_ts(t))]
        ELSE [quotes |-> <<>>, source |-> "missing_chain",
              live_called |-> TRUE, served |-> {}, rows |-> rows]

MaxCalls == 3

(* the clock starts on day 1 at 10:00 or at 23:30                          *)
ClockStartSet == {1440 + 600, 1440 + 1410}

(* time that passes between two calls, in minutes                          *)
ClockAdvanceSet == {30, 61, 1440}

ChainCallEnvSet ==
    { [live |-> LiveA, flat |-> <<>>], [live |-> LiveD, flat |-> <<>>],
      [live |-> <<>>, flat |-> FlatA], [live |-> <<>>, flat |-> <<>>] }

(* one call get_option_chain(ticker 1, Expiry, ...)                        *)
ChainCall ==
    /\ Len(chain_calls) < MaxCalls
    /\ \E ce \in ChainCallEnvSet, use_cache \in BOOLEAN :
          LET r == GetOptionChainAt(option_chains[1], now, MaxAgeMinutes,
                                    use_cache, ce)
          IN  /\ option_chains' = [option_chains EXCEPT ![1] = r.rows]
              /\ chain_calls' = Append(chain_calls,
                     [at |-> now, max_age_minutes |-> MaxAgeMinutes,
                      use_cache |-> use_cache, quotes |-> r.quotes,
                      source |-> r.source, live_called |-> r.live_called,
                      served |-> r.served])
    /\ UNCHANGED <<pc, top_n, idx, picks, weekly_picks, weekly_pick_missing,
                   audit_math, cur, now>>
    /\ UNCHANGED promoVars
    /\ UNCHANGED <<storeVars, wsVars, trigVars, laterVars>>

(* time passes, once between two calls; ClockStartSet is the time of the   *)
(* first call                                                              *)
ClockAdvance ==
    /\ Len(chain_calls) < MaxCalls
    /\ chain_calls # <<>>
    /\ chain_calls[Len(chain_calls)].at = now
    /\ \E d \in ClockAdvanceSet : now' = now + d
    /\ UNCHANGED <<chain_calls>>
    /\ UNCHANGED pickerVars
    /\ UNCHANGED promoVars
    /\ UNCHANGED <<storeVars, wsVars, trigVars, laterVars>>

PickerIdle ==
    /\ pc = "idle"
    /\ top_n = 0
    /\ idx = 1
    /\ picks = <<>>
    /\ weekly_picks = {}
    /\ weekly_pick_missing = {}
    /\ audit_math = {}
    /\ cur = NoCur

InitChain ==
    /\ PickerIdle
    /\ PromoIdle
    /\ option_chains = [t \in Tickers |-> {}]
    /\ now \in ClockStartSet
    /\ chain_calls = <<>>
    /\ StoreIdle
    /\ WsIdle
    /\ TrigIdle
    /\ LaterIdle

NextChain == ChainCall \/ ClockAdvance

SpecChain == InitChain /\ [][NextChain]_vars

(* the bid, ask and mid of each strike of a returned chain                 *)
QuoteValues(quotes) ==
    { [strike |-> quotes[i].strike, bid |-> quotes[i].bid,
       ask |-> quotes[i].ask, mid |-> quotes[i].mid] : i \in 1 .. Len(quotes) }

(* call j reads through the cache inside the window of the live fetch i    *)
RereadInWindow(i, j) ==
    /\ i < j
    /\ chain_calls[i].source = "massive_rest:option_chain_snapshot"
    /\ Len(chain_calls[i].quotes) > 0
    /\ chain_calls[j].use_cache
    /\ chain_calls[j].at - chain_calls[i].at <= chain_calls[j].max_age_minutes

(* the strikes of a returned chain                                         *)
QuoteStrikes(quotes) == { quotes[i].strike : i \in 1 .. Len(quotes) }

(* no call between i and j wrote the table                                 *)
NoFetchBetween(i, j) ==
    \A k \in (i + 1) .. (j - 1) :
        chain_calls[k].source = "cache:option_chain_snapshot"
        \/ chain_calls[k].source = "missing_chain"

(* C11: a chain fetched live and not empty, resolved again through the     *)
(* cache within max_age_minutes of the fetch, is answered without a live   *)
(* call and with source 'cache:option_chain_snapshot'; the answer holds    *)
(* every fetched strike, with the fetched bid, ask and mid when no other   *)
(* fetch wrote the table in between.                                       *)
FreshChainServedFromCache ==
    \A i, j \in 1 .. Len(chain_calls) :
        RereadInWindow(i, j) =>
            /\ ~chain_calls[j].live_called
            /\ chain_calls[j].source = "cache:option_chain_snapshot"
            /\ QuoteStrikes(chain_calls[i].quotes) \subseteq QuoteStrikes(chain_calls[j].quotes)
            /\ NoFetchBetween(i, j) =>
                   QuoteValues(chain_calls[i].quotes) \subseteq QuoteValues(chain_calls[j].quotes)

LiveThenCachedInWindow ==
    \E i, j \in 1 .. Len(chain_calls) :
        /\ RereadInWindow(i, j)
        /\ chain_calls[j].at > chain_calls[i].at
        /\ chain_calls[j].source = "cache:option_chain_snapshot"

(* C12: a call is answered from the cache only with rows written at most   *)
(* max_age_minutes before the call.                                        *)
CacheServesOnlyRowsInWindow ==
    \A j \in 1 .. Len(chain_calls) :
        \A r \in chain_calls[j].served :
            chain_calls[j].at - MinuteOf(r.ts) <= chain_calls[j].max_age_minutes

(***************************************************************************)
(* Price resolution: store.DB.set_market_last / get_market_last,           *)
(* picker._is_recent, massive_client.get_stock_last_price and              *)
(* picker._price_with_source against the clock.  A market_last row is      *)
(* [ticker, ts, price, source]; ts is the minute its text denotes, or      *)
(* BadTs for a text datetime.fromisoformat rejects; a NULL source is "".   *)
(***************************************************************************)
BadTs == 0 - 2

MARKET_LAST_MAX_AGE == 15

set_market_last(tbl, ticker, ts, price, source) ==
    { r \in tbl : r.ticker # ticker }
    \cup { [ticker |-> ticker, ts |-> ts, price |-> price, source |-> source] }

get_market_last(tbl, ticker) ==
    IF \E r \in tbl : r.ticker = ticker
    THEN CHOOSE r \in tbl : r.ticker = ticker
    ELSE [ticker |-> ticker, ts |-> None, price |-> None, source |-> ""]

(* the mutation of _is_recent that takes every readable stamp for recent   *)
IsRecentAnyAge(ts, t, max_age_minutes) == ts # None /\ ts # BadTs

_is_recent(ts, t, max_age_minutes) ==
    IF ts = None \/ ts = BadTs THEN FALSE
    ELSE t - ts <= max_age_minutes

(* what the provider answers to get_stock_last_price: whether a token is   *)
(* configured, the snapshot's last trade, its NBBO bid and ask, and the    *)
(* close of the latest aggregate bar                                       *)
LiveEnv(token, trade, bid, ask, agg_close) ==
    [token |-> token, trade |-> trade, bid |-> bid, ask |-> ask,
     agg_close |-> agg_close]

get_stock_last_price(le) ==
    IF ~le.token
    THEN [price |-> None, source |-> "massive_rest:snapshot"]
    ELSE IF le.trade # None
    THEN [price |-> le.trade, source |-> "massive_rest:snapshot_last_trade"]
    ELSE IF le.bid # None /\ le.ask # None
    THEN [price |-> (le.bid + le.ask) \div 2,
          source |-> "massive_rest:snapshot_nbbo"]
    ELSE IF le.agg_close # None
    THEN [price |-> le.agg_close, source |-> "massive_rest:delayed_aggs_sdk"]
    ELSE [price |-> None, source |-> "massive_rest:missing"]

(* lines 122-152 of picker.py read the row and the live answer             *)
PriceEnvAt(row, t, le) ==
    [cache_price |-> row.price,
     cache_fresh |-> _is_recent(row.ts, t, MARKET_LAST_MAX_AGE),
     cache_source |-> row.source,
     live_price |-> get_stock_last_price(le).price,
     live_source |-> get_stock_last_price(le).source]

MaxClock == 21

PriceTicker == <<"A", "A", "P", "L">>

StorePriceSet == {10 * Unit, 10 * Unit + 500}

(* the source tags the writers of market_last pass: ws_client._cache_bar,  *)
(* oced.py, flatfiles.load_stock_file, and ws_ingest.handle_msgs (none)    *)
WriterSourceSet ==
    {"ws:stocks_agg_1m", "massive_rest:last_trade", "flatfile:stocks_day_aggs", ""}

LiveEnvSet ==
    { LiveEnv(FALSE, 10 * Unit + 7, None, None, None),
      LiveEnv(TRUE, 10 * Unit + 7, 10 * Unit, 10 * Unit + 20, 10 * Unit + 9),
      LiveEnv(TRUE, None, 10 * Unit, 10 * Unit + 20, 10 * Unit + 9),
      LiveEnv(TRUE, None, 10 * Unit, None, 10 * Unit + 9),
      LiveEnv(TRUE, None, None, None, None) }

(* a writer stores a price for the ticker, stamped now or unreadably       *)
MarketLastWrite ==
    /\ \E px \in StorePriceSet, src \in WriterSourceSet, ts \in {now, BadTs} :
          market_last' = set_market_last(market_last, PriceTicker, ts, px, src)
    /\ UNCHANGED <<options_last, price_bars_1m, price_res>>
    /\ UNCHANGED <<pickerVars, promoVars, chainVars, wsVars, trigVars, laterVars>>

StoreTick ==
    /\ \E d \in {5, 16} :
          /\ now + d <= MaxClock
          /\ now' = now + d
    /\ UNCHANGED <<chain_calls, storeVars>>
    /\ UNCHANGED <<pickerVars, promoVars, wsVars, trigVars, laterVars>>

ResolvePrice ==
    /\ \E le \in LiveEnvSet :
          LET row == get_market_last(market_last, PriceTicker)
          IN  price_res' = <<[at |-> now, row |-> row, le |-> le,
                              res |-> _price_with_source(PriceEnvAt(row, now, le))]>>
    /\ UNCHANGED <<market_last, options_last, price_bars_1m>>
    /\ UNCHANGED <<pickerVars, promoVars, chainVars, wsVars, trigVars, laterVars>>

InitPrice ==
    /\ PickerIdle
    /\ option_chains = [t \in Tickers |-> {}]
    /\ PromoIdle
    /\ RestIdle

NextPrice == MarketLastWrite \/ StoreTick \/ ResolvePrice

SpecPrice == InitPrice /\ [][NextPrice]_vars

(* the tier a resolution should answer from, by the claim's order          *)
CacheTierYields(p) ==
    /\ p.row.price # None
    /\ p.row.ts # None /\ p.row.ts # BadTs
    /\ p.at - p.row.ts <= MARKET_LAST_MAX_AGE

LiveTierYields(p) ==
    p.le.token /\ (p.le.trade # None \/ (p.le.bid # None /\ p.le.ask # None))

DegradedTierYields(p) == p.le.token /\ p.le.agg_close # None

CacheTierTags == (WriterSourceSet \ {""}) \cup {"cache_market_last"}

LiveTierTags == {"massive_rest:snapshot_last_trade", "massive_rest:snapshot_nbbo"}

DegradedTierTags == {"massive_rest:delayed_aggs_sdk"}

ExplicitMissing(r) ==
    r.price = None /\ r.price_source = "missing" /\ r.missing_price = 1

(* C13: a resolution answers from the first of the tiers fresh cached      *)
(* price, live quote, degraded aggregate close that yields a price, with a *)
(* source tag of that tier and of no other; a cached price older than the  *)
(* 15 minute window is never the answer; when no tier yields the answer is *)
(* the explicit missing price, never a number.                             *)
PriceTiersInOrder ==
    \A k \in 1 .. Len(price_res) :
        LET p == price_res[k]
            r == p.res
        IN  /\ CacheTierYields(p) =>
                  /\ r.price = p.row.price
                  /\ r.price_source \in CacheTierTags
                  /\ r.missing_price = 0
            /\ ~CacheTierYields(p) /\ LiveTierYields(p) =>
                  /\ r.price = IF p.le.trade # None THEN p.le.trade
                               ELSE (p.le.bid + p.le.ask) \div 2
                  /\ r.price_source \in LiveTierTags
                  /\ r.missing_price = 0
            /\ ~CacheTierYields(p) /\ ~LiveTierYields(p) /\ DegradedTierYields(p) =>
                  /\ r.price = p.le.agg_close
                  /\ r.price_source \in DegradedTierTags
                  /\ r.missing_price = 0
            /\ ~CacheTierYields(p) /\ ~LiveTierYields(p) /\ ~DegradedTierYields(p) =>
                  ExplicitMissing(r)
            /\ CacheTierTags \cap (LiveTierTags \cup DegradedTierTags) = {}
            /\ LiveTierTags \cap DegradedTierTags = {}

(* a stale cached price was passed over for the degraded estimate          *)
StaleCachePassedOver ==
    \E k \in 1 .. Len(price_res) :
        /\ price_res[k].row.price # None
        /\ price_res[k].row.ts # BadTs
        /\ price_res[k].at - price_res[k].row.ts > MARKET_LAST_MAX_AGE
        /\ price_res[k].res.price_source \in DegradedTierTags

(***************************************************************************)
(* The aggregate-bar handlers: ws_client.MassiveWSClient._cache_bar and    *)
(* ws_ingest.handle_msgs, with the tables they write.  A symbol is the     *)
(* sequence of its characters, so that the decoding of an option symbol is *)
(* computed as the code computes it.  Strikes are in thousandths.          *)
(***************************************************************************)
Digits == {"0", "1", "2", "3", "4", "5", "6", "7", "8", "9"}

DigitVal(c) ==
    CASE c = "0" -> 0 [] c = "1" -> 1 [] c = "2" -> 2 [] c = "3" -> 3
      [] c = "4" -> 4 [] c = "5" -> 5 [] c = "6" -> 6 [] c = "7" -> 7
      [] c = "8" -> 8 [] c = "9" -> 9

(* Python's s[a:b] for 0 <= a, 0 <= b                                      *)
Slice(s, a, b) ==
    IF a >= Min2(b, Len(s)) THEN <<>> ELSE SubSeq(s, a + 1, Min2(b, Len(s)))

(* Python's s.find(c): the 0-based index of the first c, or -1             *)
Find(s, c) ==
    IF \E i \in 1 .. Len(s) : s[i] = c
    THEN (CHOOSE i \in 1 .. Len(s) : s[i] = c /\ \A j \in 1 .. (i - 1) : s[j] # c) - 1
    ELSE 0 - 1

(* Python's sym.split("O:", 1)[-1]                                         *)
AfterPrefix(s) ==
    IF \E i \in 1 .. (Len(s) - 1) : s[i] = "O" /\ s[i + 1] = ":"
    THEN LET i == CHOOSE i \in 1 .. (Len(s) - 1) :
                     /\ s[i] = "O" /\ s[i + 1] = ":"
                     /\ \A j \in 1 .. (i - 1) : ~(s[j] = "O" /\ s[j + 1] = ":")
         IN  Slice(s, i + 1, Len(s))
    ELSE s

StartsWithPrefix(s) == Len(s) >= 2 /\ s[1] = "O" /\ s[2] = ":"

ContainsPrefix(s) == \E i \in 1 .. (Len(s) - 1) : s[i] = "O" /\ s[i + 1] = ":"

RECURSIVE DigitsValue(_)
DigitsValue(s) ==
    IF s = <<>> THEN 0
    ELSE 10 * DigitsValue(SubSeq(s, 1, Len(s) - 1)) + DigitVal(s[Len(s)])

NoOcc == <<>>

(* ws_ingest.parse_occ_symbol on the text after the prefix; NoOcc where    *)
(* the code raises (IndexError at the right, ValueError at the strike)     *)
parse_occ_symbol(raw) ==
    LET f == Find(raw, "2")
        ticker == IF f >= 0 THEN Slice(raw, 0, f) ELSE Slice(raw, 0, Len(raw) - 1)
        n == Len(ticker)
        digits == Slice(raw, n + 7, Len(raw))
    IN  IF n + 6 >= Len(raw) THEN NoOcc
        ELSE IF digits = <<>> \/ \E i \in 1 .. Len(digits) : digits[i] \notin Digits
        THEN NoOcc
        ELSE <<[ticker |-> ticker,
                expiry |-> <<"2", "0">> \o Slice(raw, n, n + 2) \o <<"-">>
                           \o Slice(raw, n + 2, n + 4) \o <<"-">>
                           \o Slice(raw, n + 4, n + 6),
                right |-> raw[n + 7],
                strike |-> DigitsValue(digits)]>>

(* ws_client._parse_occ_symbol: the same on sym.split("O:", 1)[-1], and    *)
(* None for an exception                                                   *)
_parse_occ_symbol(sym) == parse_occ_symbol(AfterPrefix(sym))

(* store.DB.option_key                                                     *)
option_key(ticker, expiry, right, strike) == <<ticker, expiry, right, strike>>

set_options_last(tbl, c, ts, bid, ask, mid, last, source) ==
    { r \in tbl : r.key # option_key(c.ticker, c.expiry, c.right, c.strike) }
    \cup { [key |-> option_key(c.ticker, c.expiry, c.right, c.strike),
            ts |-> ts, bid |-> bid, ask |-> ask, mid |-> mid, last |-> last,
            source |-> source] }

upsert_price_bar_1m(tbl, ts, ticker, c, source) ==
    { r \in tbl : ~(r.ts = ts /\ r.ticker = ticker) }
    \cup { [ts |-> ts, ticker |-> ticker, c |-> c, source |-> source] }

(* an event without the key sym                                            *)
NoSym == <<>>

(* lines 164-233 of ws_client.py on the event ev = [sym, c, e, b, a]       *)
LongEnoughForOption(len) == len >= 15

CacheBarTables(ml, ol, pb, ev, t) ==
    IF ev.sym = NoSym \/ ev.c = None
    THEN [market_last |-> ml, options_last |-> ol, price_bars_1m |-> pb]
    ELSE LET occ == IF StartsWithPrefix(ev.sym) \/ LongEnoughForOption(Len(ev.sym))
                    THEN _parse_occ_symbol(ev.sym) ELSE NoOcc
             ts_iso == IF ev.e # None /\ ev.e # 0 THEN ev.e ELSE t
             mid == IF ev.b # None /\ ev.a # None THEN (ev.b + ev.a) \div 2
                    ELSE None
         IN  IF occ = NoOcc
             THEN [market_last |->
                       set_market_last(ml, ev.sym, ts_iso, ev.c, "ws:stocks_agg_1m"),
                   options_last |-> ol,
                   price_bars_1m |->
                       upsert_price_bar_1m(pb, ts_iso, ev.sym, ev.c, "ws:stocks_agg_1m")]
             ELSE [market_last |-> ml,
                   options_last |->
                       set_options_last(ol, occ[1], ts_iso, ev.b, ev.a, mid, ev.c,
                                        "ws:options_agg_1m"),
                   price_bars_1m |-> pb]

(* lines 37-85 of ws_ingest.py on one message                              *)
(* m = [symbol, asset_class, close, last, bid, ask]; a symbol the decoder  *)
(* raises on ends the call with nothing written                            *)
HandleMsgTables(ml, ol, pb, m, t) ==
    LET is_option == m.asset_class = "options" \/ Len(m.symbol) >= 15
        sym == IF ContainsPrefix(m.symbol) THEN AfterPrefix(m.symbol) ELSE m.symbol
        occ == parse_occ_symbol(sym)
        mid == IF m.bid # None /\ m.ask # None THEN (m.bid + m.ask) \div 2
               ELSE None
        price == IF m.close # None /\ m.close # 0 THEN m.close ELSE m.last
        same == [market_last |-> ml, options_last |-> ol, price_bars_1m |-> pb]
    IN  IF is_option
        THEN IF occ = NoOcc THEN same
             ELSE [same EXCEPT !.options_last =
                       set_options_last(ol, occ[1], t, m.bid, m.ask, mid, m.close, "")]
        ELSE IF price = None THEN same
        ELSE [same EXCEPT !.market_last = set_market_last(ml, m.symbol, t, price, "")]

SymStock == PriceTicker

SymOccBare ==
    <<"S", "P", "Y", "2", "5", "1", "2", "1", "9", "C",
      "0", "0", "6", "5", "0", "0", "0", "0">>

SymOcc == <<"O", ":">> \o SymOccBare

SymBad == <<"O", ":", "F", "2">>

BarEvent(sym, c, e, b, a) == [sym |-> sym, c |-> c, e |-> e, b |-> b, a |-> a]

(* the AM events the socket delivers: e is the bar's end, in minutes       *)
BarEventSet ==
    { BarEvent(NoSym, 10 * Unit, None, None, None),
      BarEvent(SymStock, None, None, None, None),
      BarEvent(SymStock, 10 * Unit, None, None, None),
      BarEvent(SymStock, 10 * Unit + 500, 3, None, None),
      BarEvent(SymBad, 10 * Unit, None, None, None),
      BarEvent(SymOcc, 10 * Unit, None, None, None),
      BarEvent(SymOcc, 10 * Unit + 500, 3, 9 * Unit, 11 * Unit),
      BarEvent(SymOccBare, 10 * Unit + 500, None, None, None) }

BarMsg(symbol, asset_class, close, last) ==
    [symbol |-> symbol, asset_class |-> asset_class, close |-> close,
     last |-> last, bid |-> None, ask |-> None]

(* the AM messages ws_ingest's client delivers                             *)
BarMsgSet ==
    { BarMsg(SymStock, "stocks", 10 * Unit, None),
      BarMsg(SymStock, "stocks", None, 10 * Unit + 500),
      BarMsg(SymStock, "stocks", None, None),
      BarMsg(SymStock, "options", 10 * Unit, None),
      BarMsg(SymOcc, "options", 10 * Unit, None),
      BarMsg(SymOccBare, "stocks", 10 * Unit + 500, None),
      BarMsg(SymBad, "stocks", 10 * Unit, None) }

(* _handle_event, ev_type "AM": _cache_bar(ev)                             *)
CacheBar(ev) ==
    /\ LET n == CacheBarTables(market_last, options_last, price_bars_1m, ev, now)
       IN  /\ market_last' = n.market_last
           /\ options_last' = n.options_last
           /\ price_bars_1m' = n.price_bars_1m
    /\ UNCHANGED <<price_res, pickerVars, promoVars, chainVars, wsVars, trigVars, laterVars>>

(* handle_msgs(db, [m])                                                    *)
HandleMsg(m) ==
    /\ LET n == HandleMsgTables(market_last, options_last, price_bars_1m, m, now)
       IN  /\ market_last' = n.market_last
           /\ options_last' = n.options_last
           /\ price_bars_1m' = n.price_bars_1m
    /\ UNCHANGED <<price_res, pickerVars, promoVars, chainVars, wsVars, trigVars, laterVars>>

WsClientBar == \E ev \in BarEventSet : CacheBar(ev)

WsIngestBar == \E m \in BarMsgSet : HandleMsg(m)

NextStore == WsClientBar \/ WsIngestBar \/ MarketLastWrite

SpecStore == InitPrice /\ [][NextStore]_vars

(* C14: every market_last row with a price carries a source tag that is    *)
(* not empty, whichever writer stored it.                                  *)
MarketLastRowsHaveSource ==
    \A r \in market_last : r.price # None => r.source # ""

(* the standard option-contract identifier: an optional "O:", a root of    *)
(* one to six characters that are not digits, six digits of date, C or P,  *)
(* eight digits of strike                                                  *)
IsOptionIdentifier(sym) ==
    LET raw == IF StartsWithPrefix(sym) THEN Slice(sym, 2, Len(sym)) ELSE sym
        n == Len(raw) - 15
    IN  /\ n \in 1 .. 6
        /\ \A i \in 1 .. n : raw[i] \notin Digits
        /\ \A i \in (n + 1) .. (n + 6) : raw[i] \in Digits
        /\ raw[n + 7] \in {"C", "P"}
        /\ \A i \in (n + 8) .. (n + 15) : raw[i] \in Digits

(* the contract such an identifier names, read from its fixed columns      *)
ContractKeyOf(sym) ==
    LET raw == IF StartsWithPrefix(sym) THEN Slice(sym, 2, Len(sym)) ELSE sym
        n == Len(raw) - 15
    IN  <<SubSeq(raw, 1, n),
          <<"2", "0", raw[n + 1], raw[n + 2], "-", raw[n + 3], raw[n + 4], "-",
            raw[n + 5], raw[n + 6]>>,
          raw[n + 7],
          DigitsValue(SubSeq(raw, n + 8, n + 15))>>

(* what the claim lets a bar with this symbol and close change             *)
OptionBarFrame(sym, close) ==
    /\ market_last' = market_last
    /\ price_bars_1m' = price_bars_1m
    /\ \E r \in options_last' :
          /\ r.key = ContractKeyOf(sym)
          /\ r.last = close
          /\ options_last' \ {r} = { o \in options_last : o.key # r.key }

StockBarFrame(sym, close) ==
    /\ options_last' = options_last
    /\ \E r \in market_last' :
          /\ r.ticker = sym
          /\ r.price = close
          /\ market_last' \ {r} = { o \in market_last : o.ticker # sym }
    /\ \E b \in price_bars_1m' :
          /\ b.ticker = sym
          /\ b.c = close
          /\ price_bars_1m' \ {b} =
                 { o \in price_bars_1m : ~(o.ts = b.ts /\ o.ticker = sym) }

BarFrame(sym, close) ==
    IF IsOptionIdentifier(sym) THEN OptionBarFrame(sym, close)
    ELSE StockBarFrame(sym, close)

(* the frame of the ws_client handler alone                                *)
CacheBarFrame ==
    [][\A ev \in BarEventSet :
          (ev.sym # NoSym /\ ev.c # None /\ CacheBar(ev)) => BarFrame(ev.sym, ev.c)]_vars

(* C19: a bar with a symbol and a close writes, when the symbol is an      *)
(* option-contract identifier, only that contract's options_last row, its  *)
(* last set to the close, and otherwise sets market_last of the symbol to  *)
(* the close and upserts one price_bars_1m row, options_last unchanged;    *)
(* this for the bars of either handler.                                    *)
BarHandlersFrame ==
    [][/\ \A ev \in BarEventSet :
             (ev.sym # NoSym /\ ev.c # None /\ CacheBar(ev)) => BarFrame(ev.sym, ev.c)
       /\ \A m \in BarMsgSet :
             (m.close # None /\ HandleMsg(m)) => BarFrame(m.symbol, m.close)]_vars

(***************************************************************************)
(* ws_client.MassiveWSClient: the caller's thread (subscribe, unsubscribe, *)
(* run_background, close) and the receive thread it starts (run, and the   *)
(* callbacks WebSocketApp.run_forever makes: _on_open, _on_message,        *)
(* _on_close).  run calls run_forever once, without a reconnect argument:  *)
(* run_forever returns when the connection ends, and run with it.          *)
(*                                                                         *)
(* thread_pc: "none" no thread yet; "starting" the thread runs, line 370   *)
(* not reached; "created" self.ws assigned, run_forever connecting; "open" *)
(* connected, _on_open done; "closing" the socket was closed under         *)
(* run_forever, which has not returned yet; "ended" run returned.          *)
(* The callers in cli.py and ui_app.py subscribe before they start the     *)
(* thread; a later subscribe or unsubscribe call is taken as one step.     *)
(***************************************************************************)
notWsVars == <<pickerVars, promoVars, chainVars, storeVars, trigVars, laterVars>>

MaxConns == 2

MaxWire == 4

SubArgSet == {{"AM.A"}, {"AM.B"}}

Msg(c, dir, action, params) ==
    [conn |-> c, dir |-> dir, action |-> action, params |-> params]

(* lines 235-244: _authenticate                                            *)
_authenticate(w, c, has_ws) ==
    IF ~has_ws THEN w ELSE Append(w, Msg(c, "out", "auth", {}))

(* lines 246-250: _send_subscribe                                          *)
_send_subscribe(w, c, has_ws, params) ==
    IF ~has_ws \/ params = {} THEN w
    ELSE Append(w, Msg(c, "out", "subscribe", params))

(* line 265: the test that queues a subscription                           *)
QueuesUnlessSocket(has_ws, authed) == ~has_ws

MustQueue(has_ws, authed) == ~has_ws \/ ~authed

(* line 334: the parameters of the flush                                   *)
FlushOnlyAsked(symbols, asked) == asked

FlushParams(symbols, asked) == symbols

(* the peer has answered the auth of connection c                          *)
AuthAnswered(w, c) ==
    \E i \in 1 .. Len(w) :
        w[i].conn = c /\ w[i].dir = "in"
        /\ w[i].action \in {"auth_success", "auth_failed"}

(* a subscribe went out on connection c                                    *)
SubscribeSent(w, c) ==
    \E i \in 1 .. Len(w) :
        w[i].conn = c /\ w[i].dir = "out" /\ w[i].action = "subscribe"

BarSeen(w, c) ==
    \E i \in 1 .. Len(w) : w[i].conn = c /\ w[i].dir = "in" /\ w[i].action = "AM"

(* subscribe(symbols), lines 252-269                                       *)
Subscribe ==
    /\ \E syms \in SubArgSet :
          /\ asked_since' = asked_since \cup syms
          /\ IF MustQueue(ws, is_authenticated)
             THEN /\ subscribed_symbols' = subscribed_symbols \cup syms
                  /\ UNCHANGED wire
             ELSE IF thread_pc = "open"
             THEN /\ Len(wire) < MaxWire
                  /\ wire' = _send_subscribe(wire, conn, ws, syms)
                  /\ subscribed_symbols' = subscribed_symbols \cup syms
             ELSE \* send raises on the closed socket
                  UNCHANGED <<wire, subscribed_symbols>>
    /\ UNCHANGED <<thread_pc, ws, is_authenticated, conn, close_called, at_drop>>
    /\ UNCHANGED notWsVars

(* unsubscribe(symbols), lines 297-311                                     *)
Unsubscribe ==
    /\ ws /\ is_authenticated /\ thread_pc = "open"
    /\ Len(wire) < MaxWire
    /\ \E syms \in SubArgSet :
          /\ wire' = Append(wire, Msg(conn, "out", "unsubscribe", syms))
          /\ subscribed_symbols' = subscribed_symbols \ syms
    /\ UNCHANGED <<thread_pc, ws, is_authenticated, conn, close_called, at_drop,
                   asked_since>>
    /\ UNCHANGED notWsVars

(* run_background, lines 381-392: thread.start()                           *)
RunBackground ==
    /\ thread_pc \in {"none", "ended"}
    /\ conn < MaxConns
    /\ thread_pc' = "starting"
    /\ close_called' = FALSE
    /\ UNCHANGED <<ws, is_authenticated, subscribed_symbols, conn, wire, at_drop,
                   asked_since>>
    /\ UNCHANGED notWsVars

(* run, lines 365-376: self.ws = WebSocketApp(...)                         *)
ThreadCreate ==
    /\ thread_pc = "starting"
    /\ ws' = TRUE
    /\ thread_pc' = "created"
    /\ UNCHANGED <<is_authenticated, subscribed_symbols, conn, wire, close_called,
                   at_drop, asked_since>>
    /\ UNCHANGED notWsVars

(* run_forever connects and calls _on_open, lines 131-134                  *)
ConnectOpen ==
    /\ thread_pc = "created"
    /\ conn' = conn + 1
    /\ wire' = _authenticate(wire, conn + 1, ws)
    /\ thread_pc' = "open"
    /\ UNCHANGED <<ws, is_authenticated, subscribed_symbols, close_called,
                   at_drop, asked_since>>
    /\ UNCHANGED notWsVars

(* _on_close, lines 159-162, after which run_forever and run return        *)
OnClose(dropped) ==
    /\ is_authenticated' = FALSE
    /\ thread_pc' = "ended"
    /\ at_drop' = IF dropped THEN <<subscribed_symbols>> ELSE <<>>
    /\ asked_since' = {}
    /\ UNCHANGED <<ws, subscribed_symbols, conn, wire, close_called>>
    /\ UNCHANGED notWsVars

(* the connection cannot be made, or the peer ends it                      *)
ConnectionLost ==
    /\ thread_pc \in {"created", "open"}
    /\ OnClose(TRUE)

(* run_forever notices the socket close() closed                           *)
Teardown ==
    /\ thread_pc = "closing"
    /\ OnClose(FALSE)

(* _handle_event on a status event, lines 325-338                          *)
OnStatus ==
    /\ thread_pc = "open"
    /\ ~AuthAnswered(wire, conn)
    /\ \E status \in {"auth_success", "auth_failed"} :
          IF status = "auth_success"
          THEN /\ is_authenticated' = TRUE
               /\ wire' = _send_subscribe(
                              Append(wire, Msg(conn, "in", status, {})), conn, ws,
                              FlushParams(subscribed_symbols, asked_since))
          ELSE /\ wire' = Append(wire, Msg(conn, "in", status, {}))
               /\ UNCHANGED is_authenticated
    /\ UNCHANGED <<thread_pc, ws, subscribed_symbols, conn, close_called, at_drop,
                   asked_since>>
    /\ UNCHANGED notWsVars

(* the first aggregate bar of a connection the peer has subscriptions on   *)
OnBar ==
    /\ thread_pc = "open"
    /\ SubscribeSent(wire, conn)
    /\ ~BarSeen(wire, conn)
    /\ wire' = Append(wire, Msg(conn, "in", "AM", {}))
    /\ UNCHANGED <<thread_pc, ws, is_authenticated, subscribed_symbols, conn,
                   close_called, at_drop, asked_since>>
    /\ UNCHANGED notWsVars

(* close(), lines 394-397.  Before line 370 self.ws is None, or the        *)
(* WebSocketApp of a connection that has ended: nothing is closed.  While  *)
(* run_forever is still connecting the close may come too early to count.  *)
Close ==
    /\ thread_pc # "none"
    /\ close_called' = (close_called \/ thread_pc # "ended")
    /\ \/ /\ ws /\ thread_pc \in {"created", "open"}
          /\ thread_pc' = "closing"
       \/ /\ ~ws \/ thread_pc # "open"
          /\ UNCHANGED thread_pc
    /\ UNCHANGED <<ws, is_authenticated, subscribed_symbols, conn, wire, at_drop,
                   asked_since>>
    /\ UNCHANGED notWsVars

InitWs ==
    /\ PickerIdle
    /\ option_chains = [t \in Tickers |-> {}]
    /\ PromoIdle
    /\ RestIdle

ThreadStep == ThreadCreate \/ ConnectOpen \/ Teardown

NextWs ==
    \/ Subscribe \/ Unsubscribe \/ RunBackground \/ Close
    \/ ThreadCreate \/ ConnectOpen \/ Teardown
    \/ ConnectionLost \/ OnStatus \/ OnBar

SpecWs == InitWs /\ [][NextWs]_vars

(* the receive thread is scheduled; the peer and the caller owe nothing    *)
SpecWsFair == SpecWs /\ WF_vars(ThreadStep)

(* the states of the specification's machine, read off the client          *)
WsStateOf(tpc, authed, w, c) ==
    IF tpc \in {"none", "starting", "closing", "ended"} THEN "Disconnected"
    ELSE IF tpc = "created" THEN "Connecting"
    ELSE IF ~authed THEN "Authenticating"
    ELSE IF ~BarSeen(w, c) THEN "Subscribed"
    ELSE "Receiving"

WsState == WsStateOf(thread_pc, is_authenticated, wire, conn)

WsStateOrder ==
    { <<"Disconnected", "Connecting">>, <<"Connecting", "Authenticating">>,
      <<"Authenticating", "Subscribed">>, <<"Subscribed", "Receiving">> }

(* every subscribe on the wire follows an auth_success of its connection   *)
NoSubscribeBeforeAuth ==
    \A i \in 1 .. Len(wire) :
        (wire[i].dir = "out" /\ wire[i].action = "subscribe") =>
            \E j \in 1 .. (i - 1) :
                /\ wire[j].conn = wire[i].conn
                /\ wire[j].dir = "in"
                /\ wire[j].action = "auth_success"

(* the messages a step put on the wire                                     *)
NewOnWire == SubSeq(wire', Len(wire) + 1, Len(wire'))

ResubscribesActiveSet ==
    [][/\ (at_drop # <<>> /\ conn' # conn) =>
             NewOnWire = <<Msg(conn', "out", "auth", {})>>
       /\ (at_drop # <<>> /\ ~is_authenticated /\ is_authenticated') =>
             LET active == at_drop[1] \cup asked_since
             IN  /\ ~SubscribeSent(wire, conn)
                 /\ NewOnWire =
                       IF active = {} THEN <<Msg(conn, "in", "auth_success", {})>>
                       ELSE <<Msg(conn, "in", "auth_success", {}),
                              Msg(conn, "out", "subscribe", active)>>]_vars

(* the second connection re-issued the two symbols active at the drop      *)
ReissuedAfterDrop ==
    /\ conn = 2
    /\ is_authenticated
    /\ at_drop = <<{"AM.A", "AM.B"}>>
    /\ \E i \in 1 .. Len(wire) :
          /\ wire[i] = Msg(2, "out", "subscribe", {"AM.A", "AM.B"})
          /\ \E j \in 1 .. (i - 1) : wire[j] = Msg(1, "out", "subscribe", {"AM.A", "AM.B"})

(* C17: a connection that failed or was ended by the peer, close() not     *)
(* called, is followed by an authenticated connection unless the caller    *)
(* closes the client first, whether or not the caller ever starts the      *)
(* client again.                                                           *)
DropLeadsToReceiving ==
    (at_drop # <<>> /\ thread_pc = "ended" /\ ~close_called)
        ~> ((thread_pc = "open" /\ is_authenticated) \/ close_called)

(* C18: after close() was called while the receive thread was running,     *)
(* run returns and the thread finishes.                                    *)
CloseEndsThread == close_called ~> (thread_pc = "ended")

(***************************************************************************)
(* RealTimeTriggerEngine (ws_client.py): one handle_bar call per minute    *)
(* bar, made by the handler of make_monitor_bar_handler on the receive     *)
(* thread, so the calls never overlap.  Prices and strikes are whole       *)
(* dollars, the two thresholds are per cent, the clock is in seconds; the  *)
(* comparisons are the exact ones, without float round-off.                *)
(***************************************************************************)
PctUnit == 100
near_strike_pct == 3
rapid_up_pct == 5
cooldown_sec == 300

MaxBars == 4
TickSec == 150
BarClockStart == 1000

(* str(sym).upper() on the symbols drawn                                   *)
Upper(sym) == IF sym = "a" THEN "A" ELSE sym

(* _load_contract_strikes: the strikes of the contracts open when the      *)
(* engine was built, per ticker; a ticker with none has the empty list     *)
contract_strikes ==
    [s \in TriggerSymbols |-> IF s = "A" THEN <<0, 109>> ELSE <<>>]

(* the loop over strikes: abs(px - k) / k < near_strike_pct, k = 0 skipped *)
NearStrike(px, strikes) ==
    \E i \in 1 .. Len(strikes) :
        LET k == strikes[i]
        IN  /\ k # 0
            /\ IF k > 0 THEN Abs(px - k) * PctUnit < near_strike_pct * k
                        ELSE Abs(px - k) * PctUnit > near_strike_pct * k

(* prev is not None and prev > 0 and (px / prev - 1.0) > rapid_up_pct      *)
RapidUp(px, prev) ==
    /\ prev # None
    /\ prev > 0
    /\ (px - prev) * PctUnit > rapid_up_pct * prev

(* one cooldown shared by all symbols: the latest trigger of any of them   *)
CooldownAcrossSymbols(lt, sym, t) ==
    \A s \in DOMAIN lt : t - (IF lt[s] = None THEN 0 ELSE lt[s]) >= cooldown_sec

(* _cooldown_ok: last_trigger_ts.get(sym, 0.0)                             *)
_cooldown_ok(lt, sym, t) ==
    t - (IF lt[sym] = None THEN 0 ELSE lt[sym]) >= cooldown_sec

(* handle_bar at time t: the value returned and the two dictionaries after *)
handle_bar(lp, lt, ev, t) ==
    IF ev.c = None
    THEN [triggered |-> FALSE, last_price |-> lp, last_trigger_ts |-> lt]
    ELSE LET sym == Upper(ev.sym)
             px == ev.c
             near_strike == NearStrike(px, contract_strikes[sym])
             rapid_up == RapidUp(px, lp[sym])
             triggered == (near_strike \/ rapid_up) /\ _cooldown_ok(lt, sym, t)
         IN  [triggered |-> triggered,
              last_price |-> [lp EXCEPT ![sym] = px],
              last_trigger_ts |->
                  IF triggered THEN [lt EXCEPT ![sym] = t] ELSE lt]

(* the bars drawn: A near its strike 109, in either case of the symbol; A  *)
(* without a close; B, which has no open strike, flat and 6 per cent up    *)
TriggerBarSet ==
    { [sym |-> "A", c |-> 106], [sym |-> "a", c |-> 106],
      [sym |-> "A", c |-> None],
      [sym |-> "B", c |-> 100], [sym |-> "B", c |-> 106] }

(* the handler of make_monitor_bar_handler is given one bar                *)
BarArrives ==
    /\ Len(bar_log) < MaxBars
    /\ \E ev \in TriggerBarSet :
          LET r == handle_bar(last_price, last_trigger_ts, ev, bar_clock)
          IN  /\ last_price' = r.last_price
              /\ last_trigger_ts' = r.last_trigger_ts
              /\ bar_log' = Append(bar_log,
                     [sym |-> ev.sym, c |-> ev.c, at |-> bar_clock,
                      triggered |-> r.triggered])
    /\ UNCHANGED bar_clock
    /\ UNCHANGED <<pickerVars, promoVars, chainVars, storeVars, wsVars, laterVars>>

(* time passes between two bars, at most one cooldown                      *)
TimePasses ==
    /\ bar_log # <<>>
    /\ Len(bar_log) < MaxBars
    /\ bar_clock - bar_log[Len(bar_log)].at < cooldown_sec
    /\ bar_clock' = bar_clock + TickSec
    /\ UNCHANGED <<last_price, last_trigger_ts, bar_log>>
    /\ UNCHANGED <<pickerVars, promoVars, chainVars, storeVars, wsVars, laterVars>>

InitTrigger ==
    /\ PickerIdle
    /\ option_chains = [t \in Tickers |-> {}]
    /\ PromoIdle
    /\ ChainIdle
    /\ StoreIdle
    /\ WsIdle
    /\ LaterIdle
    /\ last_price = [s \in TriggerSymbols |-> None]
    /\ last_trigger_ts = [s \in TriggerSymbols |-> None]
    /\ bar_clock = BarClockStart
    /\ bar_log = <<>>

NextTrigger == BarArrives \/ TimePasses

SpecTrigger == InitTrigger /\ [][NextTrigger]_vars

(* read off the calls made: bar i is of the same symbol as bar j           *)
SameSymbol(i, j) == Upper(bar_log[i].sym) = Upper(bar_log[j].sym)

(* the bars before bar i of its symbol that carried a price                *)
PricedBefore(i) ==
    { j \in 1 .. (i - 1) : SameSymbol(i, j) /\ bar_log[j].c # None }

(* the bars before bar i of its symbol that were reported as triggers      *)
TriggersBefore(i) ==
    { j \in 1 .. (i - 1) : SameSymbol(i, j) /\ bar_log[j].triggered }

Latest(S) == CHOOSE j \in S : \A k \in S : k <= j

(* |price - strike| / strike < near_strike_pct for some open strike        *)
NearCondition(i) ==
    LET strikes == contract_strikes[Upper(bar_log[i].sym)]
    IN  \E n \in 1 .. Len(strikes) :
            /\ strikes[n] > 0
            /\ Abs(bar_log[i].c - strikes[n]) * PctUnit
                   < near_strike_pct * strikes[n]

(* the rise over the previous bar's price is above rapid_up_pct            *)
RapidCondition(i) ==
    /\ PricedBefore(i) # {}
    /\ LET prev == bar_log[Latest(PricedBefore(i))].c
       IN  (bar_log[i].c - prev) * PctUnit > rapid_up_pct * prev

(* at least cooldown_sec since the symbol's previous trigger, if any       *)
CooldownElapsed(i) ==
    \/ TriggersBefore(i) = {}
    \/ bar_log[i].at - bar_log[Latest(TriggersBefore(i))].at >= cooldown_sec

(* C20: handle_bar reports a trigger exactly when the bar carries a price, *)
(* the near-strike or the rapid-move condition holds for it and at least   *)
(* cooldown_sec have passed since the previous trigger of the same symbol; *)
(* two triggers of one symbol are at least cooldown_sec apart, and the     *)
(* triggers of other symbols play no part.                                 *)
TriggerExactlyWhenDue ==
    /\ \A i \in 1 .. Len(bar_log) :
          bar_log[i].triggered <=>
              /\ bar_log[i].c # None
              /\ NearCondition(i) \/ RapidCondition(i)
              /\ CooldownElapsed(i)
    /\ \A i, j \in 1 .. Len(bar_log) :
          (i < j /\ SameSymbol(i, j) /\ bar_log[i].triggered /\ bar_log[j].triggered)
              => bar_log[j].at - bar_log[i].at >= cooldown_sec

(* A triggered, B triggered inside A's cooldown, and a later bar of A that *)
(* met the near-strike condition inside the cooldown was not a trigger     *)
SuppressedWhileOtherFires ==
    \E i, j, k \in 1 .. Len(bar_log) :
        /\ i < j /\ i < k
        /\ Upper(bar_log[i].sym) = "A" /\ bar_log[i].triggered
        /\ bar_log[j].sym = "B" /\ bar_log[j].triggered
        /\ bar_log[j].at - bar_log[i].at < cooldown_sec
        /\ SameSymbol(i, k) /\ bar_log[k].c # None /\ NearCondition(k)
        /\ bar_log[k].at - bar_log[i].at < cooldown_sec
        /\ ~bar_log[k].triggered

(***************************************************************************)
(* Two trigger engines built with the same strikes and thresholds and      *)
(* given the same bars, each at the wall-clock time its own delivery       *)
(* happens: the first engine is last_price / last_trigger_ts / bar_clock / *)
(* bar_log, the second the twin_ variables.                                *)
(***************************************************************************)
MaxTwinBars == 3

(* the same bar is handled by both engines, each reading its own clock     *)
TwinBarArrives ==
    /\ Len(bar_log) < MaxTwinBars
    /\ \E ev \in TriggerBarSet :
          LET r == handle_bar(last_price, last_trigger_ts, ev, bar_clock)
              q == handle_bar(twin_last_price, twin_last_trigger_ts, ev, twin_clock)
          IN  /\ last_price' = r.last_price
              /\ last_trigger_ts' = r.last_trigger_ts
              /\ bar_log' = Append(bar_log,
                     [sym |-> ev.sym, c |-> ev.c, at |-> bar_clock,
                      triggered |-> r.triggered])
              /\ twin_last_price' = q.last_price
              /\ twin_last_trigger_ts' = q.last_trigger_ts
              /\ twin_log' = Append(twin_log,
                     [sym |-> ev.sym, c |-> ev.c, at |-> twin_clock,
                      triggered |-> q.triggered])
    /\ UNCHANGED <<bar_clock, twin_clock>>
    /\ UNCHANGED <<pickerVars, chainVars, storeVars, wsVars, twinOthers>>

(* time passes for the first engine between two bars                       *)
FirstTimePasses ==
    /\ bar_log # <<>>
    /\ Len(bar_log) < MaxTwinBars
    /\ bar_clock - bar_log[Len(bar_log)].at < cooldown_sec
    /\ bar_clock' = bar_clock + TickSec
    /\ UNCHANGED <<last_price, last_trigger_ts, bar_log>>
    /\ UNCHANGED <<pickerVars, promoVars, chainVars, storeVars, wsVars, laterVars>>

(* time passes for the second engine between two bars                      *)
TwinTimePasses ==
    /\ twin_log # <<>>
    /\ Len(twin_log) < MaxTwinBars
    /\ twin_clock - twin_log[Len(twin_log)].at < cooldown_sec
    /\ twin_clock' = twin_clock + TickSec
    /\ UNCHANGED <<twin_last_price, twin_last_trigger_ts, twin_log>>
    /\ UNCHANGED <<pickerVars, chainVars, storeVars, wsVars, trigVars, twinOthers>>

InitTwin ==
    /\ PickerIdle
    /\ option_chains = [t \in Tickers |-> {}]
    /\ PromoIdle
    /\ ChainIdle
    /\ StoreIdle
    /\ WsIdle
    /\ last_price = [s \in TriggerSymbols |-> None]
    /\ last_trigger_ts = [s \in TriggerSymbols |-> None]
    /\ bar_clock = BarClockStart
    /\ bar_log = <<>>
    /\ twin_last_price = [s \in TriggerSymbols |-> None]
    /\ twin_last_trigger_ts = [s \in TriggerSymbols |-> None]
    /\ twin_clock = BarClockStart
    /\ twin_log = <<>>
    /\ TwinOthersIdle

NextTwin == TwinBarArrives \/ FirstTimePasses \/ TwinTimePasses

SpecTwin == InitTwin /\ [][NextTwin]_vars

(* the two engines were given the same sequence of bars                    *)
SameBarHistory ==
    /\ Len(bar_log) = Len(twin_log)
    /\ \A i \in 1 .. Len(bar_log) :
          bar_log[i].sym = twin_log[i].sym /\ bar_log[i].c = twin_log[i].c

(* C21: two engines with the same strikes and thresholds that were given   *)
(* the same sequence of bars returned the same sequence of trigger         *)
(* results, whatever the times at which each was given its bars.           *)
SameBarsSameTriggers ==
    SameBarHistory =>
        \A i \in 1 .. Len(bar_log) : bar_log[i].triggered = twin_log[i].triggered

(***************************************************************************)
(* picker._select_chain_option applied to a chain: first to the quotes a   *)
(* live fetch returned, which options_chain.get_option_chain writes to     *)
(* option_chains, then to the rows DB.get_option_chain reads back for the  *)
(* same ticker, expiry, price and lane.                                    *)
(***************************************************************************)
MaxChain == 3

SelPrice == 10 * Unit

(* the quotes a chain is built from: strike, bid, ask, mid, delta in       *)
(* hundredths, contract                                                    *)
SelQuoteSet ==
    { Quote(1050000, 9500, 10500, 10000, 25, "O:X1050"),
      Quote(1060000, None, None, 12000, None, "O:X1060"),
      Quote(950000, 60000, 62000, 61000, 40, "O:X950"),
      Quote(1100000, 14000, 16000, 15000, 30, "O:X1100"),
      Quote(1100000, 2000, 30000, 16000, 20, "O:X1100"),
      Quote(1030000, 9000, 10000, 4000, 20, "O:X1030"),
      Quote(1080000, 11000, 12000, 11500, 50, "O:X1080"),
      Quote(1070000, 19000, 21000, 20000, 35, "O:X1070"),
      Quote(1090000, 900, 1100, 1000, 22, "O:X1090"),
      Quote(1100000, None, None, 8000, None, "O:X1100") }

(* target_strike: not given, or 10.80 dollars (in units of 1e-8 dollar)    *)
SelTargetSet == {None, 1080000 * 1000}

SelUnset == sel_res = <<>> /\ sel_cached = <<>>

(* the provider returns one more quote of the chain                        *)
SelectAddQuote ==
    /\ SelUnset
    /\ Len(sel_quotes) < MaxChain
    /\ \E q \in SelQuoteSet : sel_quotes' = Append(sel_quotes, q)
    /\ UNCHANGED <<sel_price, sel_lane, sel_target, sel_rows, sel_res, sel_cached>>
    /\ UNCHANGED <<pickerVars, chainVars, storeVars, wsVars, trigVars, selOthers>>

(* a run selects from the live quotes; get_option_chain has cached them    *)
SelectFromLive ==
    /\ SelUnset
    /\ sel_res' = <<_select_chain_option(sel_price, sel_lane, sel_target, sel_quotes)>>
    /\ sel_rows' = DbUpsertOptionChainRows(sel_rows, sel_quotes)
    /\ UNCHANGED <<sel_price, sel_lane, sel_target, sel_quotes, sel_cached>>
    /\ UNCHANGED <<pickerVars, chainVars, storeVars, wsVars, trigVars, selOthers>>

(* a later run inside the freshness window selects from the cached rows    *)
SelectFromCache ==
    /\ sel_res # <<>>
    /\ sel_cached = <<>>
    /\ sel_cached' = <<_select_chain_option(sel_price, sel_lane, sel_target,
                                            DbGetOptionChain(sel_rows, TRUE))>>
    /\ UNCHANGED <<sel_price, sel_lane, sel_target, sel_quotes, sel_rows, sel_res>>
    /\ UNCHANGED <<pickerVars, chainVars, storeVars, wsVars, trigVars, selOthers>>

InitSelect ==
    /\ PickerIdle
    /\ option_chains = [t \in Tickers |-> {}]
    /\ PromoIdle
    /\ ChainIdle
    /\ StoreIdle
    /\ WsIdle
    /\ TrigIdle
    /\ SelOthersIdle
    /\ sel_price = SelPrice
    /\ sel_lane \in Lanes
    /\ sel_target \in SelTargetSet
    /\ sel_quotes = <<>>
    /\ sel_rows = {}
    /\ sel_res = <<>>
    /\ sel_cached = <<>>

NextSelect == SelectAddQuote \/ SelectFromLive \/ SelectFromCache

SpecSelect == InitSelect /\ [][NextSelect]_vars

(* the stated conditions on a quote or a selected contract x, with the     *)
(* spread measured against the midpoint of bid and ask                     *)
StrikeAtOrAboveSpot(x) == x.strike # None /\ x.strike >= sel_price

MidPositive(x) == QuoteCallMid(x) # None /\ QuoteCallMid(x) > 0

SpreadWithinMidpoint(x) ==
    (x.bid # None /\ x.ask # None) =>
        200 * (x.ask - x.bid) <= MAX_SPREAD_PCT * (x.ask + x.bid)

SpreadWithinMid(x) ==
    (x.bid # None /\ x.ask # None) =>
        100 * (x.ask - x.bid) <= MAX_SPREAD_PCT * QuoteCallMid(x)

DeltaInBand(x) ==
    x.delta # None => (x.delta >= DELTA_BAND_LO /\ x.delta <= DELTA_BAND_HI)

(* premium per 100 shares over the cost of 100 shares, against the lane's  *)
(* floor, both scaled by 1000 * price                                      *)
YieldAtLeastFloor(x) ==
    10 * Round2Cents(QuoteCallMid(x)) * 1000 >= LANE_MIN_YIELD(sel_lane) * sel_price

MeetsStatedFilters(x) ==
    /\ StrikeAtOrAboveSpot(x)
    /\ MidPositive(x)
    /\ SpreadWithinMidpoint(x)
    /\ DeltaInBand(x)
    /\ YieldAtLeastFloor(x)

PassingQuotes ==
    { i \in 1 .. Len(sel_quotes) : QuotePasses(sel_quotes[i], sel_price, sel_lane) }

(* the lane's target delta, in hundredths                                  *)
StatedTargetDelta ==
    CASE sel_lane = "SAFE" -> 20
      [] sel_lane = "SAFE_HIGH" -> 25
      [] sel_lane = "SAFE_HIGH_PAYOUT" -> 30
      [] sel_lane = "AGGRESSIVE" -> 35

(* the target strike, in units of 1e-8 dollar: the argument when given,    *)
(* else the price plus the lane's out-of-the-money margin                  *)
StatedTargetStrike ==
    IF sel_target # None THEN sel_target
    ELSE sel_price * (100 + OtmPct(sel_lane)) * 10

DeltaDistance(x) == Abs(x.delta - StatedTargetDelta)

StrikeDistance(x) == Abs(1000 * x.strike - StatedTargetStrike)

(* C25: among the quotes that pass the filters the selected one is nearest *)
(* the lane's target delta when a passing quote has a delta, otherwise     *)
(* nearest the target strike; none at the same distance has a higher yield *)
SelectedIsNearestTarget ==
    (sel_res # <<>> /\ sel_res[1].ok) =>
        LET p == sel_res[1].picked
            withDelta == { i \in PassingQuotes : sel_quotes[i].delta # None }
        IN  IF withDelta # {}
            THEN /\ p.delta # None
                 /\ \E i \in withDelta :
                       sel_quotes[i].strike = p.strike /\ sel_quotes[i].delta = p.delta
                 /\ \A i \in withDelta :
                       \/ DeltaDistance(p) < DeltaDistance(sel_quotes[i])
                       \/ /\ DeltaDistance(p) = DeltaDistance(sel_quotes[i])
                          /\ p.prem_yield >= QuoteYield(sel_quotes[i], sel_price)
            ELSE /\ \E i \in PassingQuotes : sel_quotes[i].strike = p.strike
                 /\ \A i \in PassingQuotes :
                       \/ StrikeDistance(p) < StrikeDistance(sel_quotes[i])
                       \/ /\ StrikeDistance(p) = StrikeDistance(sel_quotes[i])
                          /\ p.prem_yield >= QuoteYield(sel_quotes[i], sel_price)

(* two passing quotes equally far from the target delta 0.30, the one with *)
(* the lower yield listed first, and the higher yield selected             *)
DeltaTieBrokenByYield ==
    /\ sel_lane = "SAFE_HIGH_PAYOUT"
    /\ Len(sel_quotes) = 2
    /\ sel_quotes[1].delta = 25 /\ sel_quotes[2].delta = 35
    /\ PassingQuotes = {1, 2}
    /\ sel_res # <<>>
    /\ sel_res[1].ok
    /\ sel_res[1].picked.delta = 35

(* C27: the contract selected from the rows read back from the cache is    *)
(* the contract selected from the live quotes that were written to it:     *)
(* same outcome, strike, bid, ask, mid, delta and contract id.             *)
CacheRoundTripSameSelection ==
    sel_cached # <<>> =>
        LET a == sel_res[1]
            b == sel_cached[1]
        IN  /\ a.ok = b.ok
            /\ a.picked.strike = b.picked.strike
            /\ a.picked.bid = b.picked.bid
            /\ a.picked.ask = b.picked.ask
            /\ a.picked.mid = b.picked.mid
            /\ a.picked.delta = b.picked.delta
            /\ a.picked.contract = b.picked.contract

(***************************************************************************)
(* Two picker runs over one database: the option_chains rows the first run *)
(* leaves are the cache of the second.  Both runs write under one run      *)
(* timestamp, so a row of the second run replaces the first run's row of   *)
(* its ticker.  bootstrap_rows and bootstrap_picks record where the cached *)
(* rows came from; the code keeps no such record.                          *)
(***************************************************************************)
MaxPickerRuns == 2

(* the inputs of one ticker in these runs: a price, the scorer rows, what  *)
(* the live chain source and the flat-file bootstrap hold                  *)
RerunInputSet ==
    { [pe |-> PriceCacheHit, sc |-> ScorerSafe, ce |-> [live |-> <<>>, flat |-> FlatA]],
      [pe |-> PriceLive, sc |-> ScorerMid, ce |-> [live |-> <<>>, flat |-> FlatA]],
      [pe |-> PriceCacheHit, sc |-> ScorerSafe, ce |-> [live |-> LiveA, flat |-> <<>>]],
      [pe |-> PriceLive, sc |-> ScorerMid, ce |-> [live |-> LiveB, flat |-> <<>>]],
      [pe |-> PriceCacheHit, sc |-> ScorerSafe, ce |-> [live |-> <<>>, flat |-> <<>>]] }

StrikesOf(quotes) == { quotes[i].strike : i \in 1 .. Len(quotes) }

(* the strikes of bootstrap origin after get_option_chain ran on rows      *)
BootstrapAfter(strikes, chain, ce) ==
    IF chain.source = "flatfile:chain_bootstrap" THEN strikes \cup StrikesOf(ce.flat)
    ELSE IF chain.source = "massive_rest:option_chain_snapshot"
    THEN strikes \ StrikesOf(ce.live)
    ELSE strikes

(* one pass of the loop at lines 473-716, as PickerIteration               *)
RerunIteration(pe, sc, ce, oldFresh) ==
    /\ pc = "loop"
    /\ idx <= Len(TickerList)
    /\ LET n == TickerStep(LoopState(picks, weekly_pick_missing, audit_math,
                                     option_chains, cur),
                           TickerList[idx], pe, sc, ce, oldFresh)
       IN  /\ weekly_pick_missing' = n.weekly_pick_missing
           /\ audit_math' = n.audit_math
           /\ picks' = n.picks
           /\ option_chains' = n.option_chains
           /\ cur' = n.cur
    /\ LET t == TickerList[idx]
           source == get_option_chain(option_chains[t], oldFresh, ce).source
       IN  /\ bootstrap_rows' =
                 IF cur'.chain_resolved
                 THEN [bootstrap_rows EXCEPT
                          ![t] = BootstrapAfter(@, [source |-> source], ce)]
                 ELSE bootstrap_rows
           /\ bootstrap_picks' =
                 IF /\ Len(picks') > Len(picks)
                    /\ source = "cache:option_chain_snapshot"
                    /\ picks'[Len(picks')].strike \in bootstrap_rows[t]
                 THEN bootstrap_picks \cup {t}
                 ELSE bootstrap_picks \ {t}
    /\ idx' = idx + 1
    /\ UNCHANGED <<pc, top_n, weekly_picks, run_no>>
    /\ UNCHANGED <<chainVars, storeVars, wsVars, trigVars, rerunOthers>>

RerunTicker ==
    \E i \in RerunInputSet, oldFresh \in BOOLEAN :
        RerunIteration(i.pe, i.sc, i.ce, oldFresh)

(* the next run starts later: the rows the finished run wrote are now old  *)
RerunAgain ==
    /\ pc = "done"
    /\ run_no < MaxPickerRuns
    /\ run_no' = run_no + 1
    /\ pc' = "idle"
    /\ option_chains' =
          [t \in Tickers |-> { [r EXCEPT !.ts = "old"] : r \in option_chains[t] }]
    /\ UNCHANGED <<top_n, idx, picks, weekly_picks, weekly_pick_missing,
                   audit_math, cur, bootstrap_rows, bootstrap_picks>>
    /\ UNCHANGED <<chainVars, storeVars, wsVars, trigVars, rerunOthers>>

InitRerun ==
    /\ pc = "idle"
    /\ top_n = 0
    /\ idx = 1
    /\ picks = <<>>
    /\ weekly_picks = {}
    /\ weekly_pick_missing = {}
    /\ audit_math = {}
    /\ option_chains = [t \in Tickers |-> {}]
    /\ cur = NoCur
    /\ PromoIdle
    /\ ChainIdle
    /\ StoreIdle
    /\ WsIdle
    /\ TrigIdle
    /\ RerunOthersIdle
    /\ run_no = 1
    /\ bootstrap_rows = [t \in Tickers |-> {}]
    /\ bootstrap_picks = {}

NextRerun == PickerStart \/ RerunTicker \/ PickerFinish \/ RerunAgain

SpecRerun == InitRerun /\ [][NextRerun]_vars

(* C26: no weekly_picks row is built from chain rows that the flat-file    *)
(* bootstrap wrote, neither in the run that got them from the bootstrap    *)
(* nor in a later run that reads them from the chain cache.                *)
NoPickFromBootstrapRows ==
    /\ \A r \in weekly_picks : r.chain_source # "flatfile:chain_bootstrap"
    /\ \A r \in weekly_picks : r.ticker \notin bootstrap_picks

(* the run that gets the chain from the bootstrap logs a miss and no pick  *)
BootstrapRunWritesNoPick ==
    [][(pc = "loop" /\ idx' = idx + 1 /\ cur'.chain_source = "flatfile:chain_bootstrap")
          => (picks' = picks /\ weekly_picks' = weekly_picks)]_vars

(***************************************************************************)
(* massive_client.py: the throttle and the functions that make outbound    *)
(* REST calls, called one after the other by one thread.  time.sleep(wait) *)
(* returns after exactly wait seconds.                                     *)
(***************************************************************************)
_CALL_DELAY == 15

MaxRestCalls == 3

RestClockStart == 1000

RestTickSet == {5, 20}

(* _throttle called at time t: the time at which it returns, which is also *)
(* the new _LAST_CALL_TS                                                   *)
_throttle(last, t) ==
    IF t - last < _CALL_DELAY THEN t + (_CALL_DELAY - (t - last)) ELSE t

RestCall(endpoint, t) == [endpoint |-> endpoint, at |-> t]

(* _sdk_get: the stock snapshot, get_aggs, the chain snapshot, the         *)
(* contract snapshot and the contracts listing all go through it           *)
SdkEndpointSet == {"stock_snapshot", "aggs", "chain_snapshot"}

_sdk_get(endpoint) ==
    /\ Len(rest_calls) < MaxRestCalls
    /\ LET t == _throttle(_LAST_CALL_TS, wall_clock)
       IN  /\ _LAST_CALL_TS' = t
           /\ wall_clock' = t
           /\ rest_calls' = Append(rest_calls, RestCall(endpoint, t))
    /\ UNCHANGED <<pickerVars, chainVars, storeVars, wsVars, trigVars, throttleOthers>>

SdkGet == \E e \in SdkEndpointSet : _sdk_get(e)

(* MassiveDataClient._fetch_from_api: _throttle(), then get_aggs, which    *)
(* goes through _sdk_get and its own _throttle()                           *)
FetchFromApi ==
    /\ Len(rest_calls) < MaxRestCalls
    /\ LET t1 == _throttle(_LAST_CALL_TS, wall_clock)
           t2 == _throttle(t1, t1)
       IN  /\ _LAST_CALL_TS' = t2
           /\ wall_clock' = t2
           /\ rest_calls' = Append(rest_calls, RestCall("aggs", t2))
    /\ UNCHANGED <<pickerVars, chainVars, storeVars, wsVars, trigVars, throttleOthers>>

(* the grouped-daily prefetch: _throttle(), then requests.get, one day     *)
GroupedDaily ==
    /\ Len(rest_calls) < MaxRestCalls
    /\ LET t == _throttle(_LAST_CALL_TS, wall_clock)
       IN  /\ _LAST_CALL_TS' = t
           /\ wall_clock' = t
           /\ rest_calls' = Append(rest_calls, RestCall("grouped_daily", t))
    /\ UNCHANGED <<pickerVars, chainVars, storeVars, wsVars, trigVars, throttleOthers>>

(* get_option_last_quote: rest.list_quotes at once; without a mid from it, *)
(* the get_aggs fallback through _sdk_get                                  *)
get_option_last_quote(has_mid) ==
    /\ Len(rest_calls) + 1 < MaxRestCalls
    /\ LET quoted == Append(rest_calls, RestCall("list_quotes", wall_clock))
           t == _throttle(_LAST_CALL_TS, wall_clock)
       IN  IF has_mid
           THEN /\ rest_calls' = quoted
                /\ UNCHANGED <<_LAST_CALL_TS, wall_clock>>
           ELSE /\ rest_calls' = Append(quoted, RestCall("aggs", t))
                /\ _LAST_CALL_TS' = t
                /\ wall_clock' = t
    /\ UNCHANGED <<pickerVars, chainVars, storeVars, wsVars, trigVars, throttleOthers>>

OptionLastQuote == \E has_mid \in BOOLEAN : get_option_last_quote(has_mid)

(* the caller does something else between two calls, for a while           *)
RestTimePasses ==
    /\ Len(rest_calls) < MaxRestCalls
    /\ rest_calls # <<>>
    /\ wall_clock - rest_calls[Len(rest_calls)].at < _CALL_DELAY
    /\ \E d \in RestTickSet : wall_clock' = wall_clock + d
    /\ UNCHANGED <<_LAST_CALL_TS, rest_calls>>
    /\ UNCHANGED <<pickerVars, chainVars, storeVars, wsVars, trigVars, throttleOthers>>

InitThrottle ==
    /\ PickerIdle
    /\ option_chains = [t \in Tickers |-> {}]
    /\ PromoIdle
    /\ ChainIdle
    /\ StoreIdle
    /\ WsIdle
    /\ TrigIdle
    /\ ThrottleOthersIdle
    /\ _LAST_CALL_TS = 0
    /\ wall_clock = RestClockStart
    /\ rest_calls = <<>>

NextThrottle ==
    SdkGet \/ FetchFromApi \/ GroupedDaily \/ OptionLastQuote \/ RestTimePasses

SpecThrottle == InitThrottle /\ [][NextThrottle]_vars

(* C23: any two consecutive outbound REST calls of the process, whatever   *)
(* the endpoint and the call path, are at least _CALL_DELAY apart.         *)
RestCallsSpaced ==
    \A i \in 2 .. Len(rest_calls) :
        rest_calls[i].at - rest_calls[i - 1].at >= _CALL_DELAY

(* the calls that go through _throttle are at least _CALL_DELAY apart from *)
(* one another                                                             *)
ThrottledCallsSpaced ==
    \A i, j \in 1 .. Len(rest_calls) :
        (i < j /\ rest_calls[i].endpoint # "list_quotes"
               /\ rest_calls[j].endpoint # "list_quotes")
            => rest_calls[j].at - rest_calls[i].at >= _CALL_DELAY

(***************************************************************************)
(* cli.audit (cli.py 567-725): recompute pack cost, premium and yield of   *)
(* the latest weekly picks and report PASS/FAIL.  Pack cost and premium    *)
(* are in cents, the yield in 1e-7.                                        *)
(***************************************************************************)
AuditTopDefault == 15

MaxAuditRows == 17

AuditSizes == {1, 2, AuditTopDefault, AuditTopDefault + 1, MaxAuditRows}

AuditRanked == 3

OtherExpiry == "2026-11-13"

(* persisted minus recomputed, <<pack, premium, yield>>; None: not stored  *)
AuditKindSet ==
    ({0, 5, 6, 0 - 6} \X {0, 5, 0 - 6} \X {0, 1000, 0 - 1001}) \cup {<<None, 0, 0>>}

AuditPriceOf(i) == IF i % 2 = 0 THEN 10 * Unit ELSE 1234567

AuditMid == 25 * 1000

(* a weekly_picks row of ticker i whose stored values are off by kind      *)
AuditRow(ts, i, kind) ==
    LET price == AuditPriceOf(i)
        pack == PackCost(price)
        prem == Prem100Calc(AuditMid)
    IN  [ts |-> ts, ticker |-> i,
         rank |-> IF i <= AuditRanked THEN i ELSE None,
         price |-> price, call_mid |-> AuditMid,
         pack_100_cost |-> IF kind[1] = None THEN None ELSE pack + kind[1],
         prem_100 |-> prem + kind[2], est_weekly_prem_100 |-> prem + kind[2],
         prem_yield |-> _safe_div(prem, pack) + kind[3],
         prem_yield_weekly |-> _safe_div(prem, pack) + kind[3],
         expiry |-> Expiry, recommended_expiry |-> Expiry]

(* lines 631-632: within(val, tol)                                         *)
within(val, tol) == val = None \/ Abs(val) <= tol

(* lines 608-635: one pick's math row                                      *)
AuditMathRow(p) ==
    LET price == p.price
        chain_mid == p.call_mid
        prem_reported == Coalesce(p.prem_100, p.est_weekly_prem_100)
        prem_yield_reported == Coalesce(p.prem_yield, p.prem_yield_weekly)
        pack_reported == p.pack_100_cost
        pack_calc == IF price # None THEN Round2Cents(price) ELSE None
        prem_calc == IF chain_mid # None THEN Round2Cents(chain_mid) ELSE None
        prem_yield_calc == IF prem_calc # None /\ pack_calc # None /\ pack_calc # 0
                           THEN FixDiv7(prem_calc, pack_calc) ELSE None
        diff_pack == IF pack_calc = None \/ pack_reported = None THEN None
                     ELSE pack_calc - pack_reported
        diff_prem == IF prem_calc = None \/ prem_reported = None THEN None
                     ELSE prem_calc - prem_reported
        diff_yield == IF prem_yield_calc # None /\ prem_yield_reported # None
                      THEN prem_yield_calc - prem_yield_reported ELSE None
    IN  [ticker |-> p.ticker, diff_pack |-> diff_pack, diff_prem |-> diff_prem,
         diff_yield |-> diff_yield,
         pass_fail |-> IF within(diff_pack, 5) /\ within(diff_prem, 5)
                          /\ within(diff_yield, 1000)
                       THEN "PASS" ELSE "FAIL"]

(* lines 584-589: the expiry filter                                        *)
AuditExpiryFilter(shown, expiry) ==
    IF expiry # ""
    THEN SelectSeq(shown, LAMBDA p : p.expiry = expiry \/ p.recommended_expiry = expiry
                                     \/ p.recommended_expiry = "")
    ELSE shown

(* lines 590-591: if top: shown = shown[:top]                              *)
AuditTopSlice(shown, top) ==
    IF top # 0 THEN SubSeq(shown, 1, Min2(top, Len(shown))) ELSE shown

(* lines 582-650: the rows the audit checks, and what it reports on them   *)
audit(table, expiry, top) ==
    LET shown == AuditTopSlice(AuditExpiryFilter(fetch_latest_weekly_picks(table), expiry), top)
    IN  [i \in 1 .. Len(shown) |-> AuditMathRow(shown[i])]

(* one invocation of the audit command; the database is only read and the  *)
(* report files are written anew                                           *)
AuditRun(expiry, top) ==
    /\ audit_args' = <<top, expiry>>
    /\ math_rows' = audit(audit_picks, expiry, top)
    /\ UNCHANGED audit_picks
    /\ UNCHANGED <<pickerVars, chainVars, storeVars, wsVars, trigVars, auditOthers>>

InitAudit ==
    /\ PickerIdle
    /\ option_chains = [t \in Tickers |-> {}]
    /\ PromoIdle
    /\ ChainIdle /\ StoreIdle /\ WsIdle /\ TrigIdle
    /\ AuditOthersIdle
    /\ audit_args = <<>>
    /\ math_rows = <<>>
    /\ \E n \in AuditSizes, odd \in {1, 2}, kind \in AuditKindSet, withOld \in BOOLEAN :
          audit_picks =
              { AuditRow(RunTs, i, IF i = odd THEN kind ELSE <<0, 0, 0>>) : i \in 1 .. n }
              \cup (IF withOld THEN {AuditRow("old", 1, <<6, 0, 0>>)} ELSE {})

NextAudit ==
    \/ \E expiry \in {"", Expiry, OtherExpiry}, top \in {0, 2, AuditTopDefault} :
          AuditRun(expiry, top)

SpecAudit == InitAudit /\ [][NextAudit]_vars

AuditLatestRows == { r \in audit_picks : r.ts = RunTs }

(* a stored value and its recomputation both exist and differ by more than *)
(* the tolerance                                                           *)
StoredDiffers(r) ==
    \/ r.pack_100_cost # None /\ Abs(PackCost(r.price) - r.pack_100_cost) > 5
    \/ Abs(Prem100Calc(r.call_mid) - r.prem_100) > 5
    \/ Abs(_safe_div(Prem100Calc(r.call_mid), PackCost(r.price)) - r.prem_yield) > 1000

(* C24: after an audit with the default arguments every persisted pick of  *)
(* the latest run has a row in the math report.                            *)
AuditCoversEveryLatestPick ==
    audit_args = <<AuditTopDefault, "">> =>
        \A r \in AuditLatestRows :
            \E i \in 1 .. Len(math_rows) : math_rows[i].ticker = r.ticker

(* every reported row is of the latest run and is FAIL exactly when a      *)
(* stored value differs from its recomputation by more than the tolerance  *)
AuditVerdictExact ==
    \A i \in 1 .. Len(math_rows) :
        \E r \in AuditLatestRows :
            /\ r.ticker = math_rows[i].ticker
            /\ (math_rows[i].pass_fail = "FAIL") <=> StoredDiffers(r)

(* the audit never changes the table it reads                              *)
AuditReadOnly == [][audit_picks' = audit_picks]_vars

(* a FAIL row and a PASS row in one report                                 *)
AuditReportsBoth ==
    /\ \E i \in 1 .. Len(math_rows) : math_rows[i].pass_fail = "FAIL"
    /\ \E i \in 1 .. Len(math_rows) : math_rows[i].pass_fail = "PASS"

(***************************************************************************)
(* subscribe / subscribe_stocks / subscribe_options called on one thread   *)
(* while the receive loop runs on the thread run_background started        *)
(* (ws_client.py 252-295, 325-338, 381-392).  The calling thread can be    *)
(* preempted between its statements: the test of line 260, the send and    *)
(* the update of subscribed_symbols are separate steps.                    *)
(***************************************************************************)
SubscribeVariants == {"subscribe", "subscribe_stocks", "subscribe_options"}

SymbolArgSet == {"a"}

(* s.upper().strip() on the symbols drawn                                  *)
UpperStrip(sym) == IF sym = "a" THEN "A" ELSE sym

(* sym.startswith("AM.O:") on the symbols drawn                            *)
StartsWithOptionChannel(sym) == sym = "AM.O:B"

(* lines 257-258, 274-276, 286-288: the channel name of a symbol           *)
PayloadOf(variant, sym) ==
    LET s == UpperStrip(sym)
    IN  IF variant = "subscribe" THEN "AM." \o s
        ELSE IF variant = "subscribe_stocks" THEN "AM.S:" \o s
        ELSE IF StartsWithOptionChannel(s) THEN s ELSE "AM.O:" \o s

(* lines 257-260: build the payload and test the connection; the calls    *)
(* looked at are those made once run_background has been called            *)
SubscribeBegin ==
    /\ sub_pc = "idle"
    /\ thread_pc # "none"
    /\ \E variant \in SubscribeVariants, sym \in SymbolArgSet :
          sub_payload' = {PayloadOf(variant, sym)}
    /\ sub_pc' = IF MustQueue(ws, is_authenticated) THEN "queue" ELSE "send"
    /\ UNCHANGED wsVars
    /\ UNCHANGED <<pickerVars, chainVars, storeVars, trigVars, subOthers>>

(* lines 262-264: queue for later                                          *)
SubscribeQueue ==
    /\ sub_pc = "queue"
    /\ subscribed_symbols' = subscribed_symbols \cup sub_payload
    /\ asked_since' = asked_since \cup sub_payload
    /\ sub_pc' = "returned"
    /\ UNCHANGED <<thread_pc, ws, is_authenticated, conn, wire, close_called, at_drop>>
    /\ UNCHANGED sub_payload
    /\ UNCHANGED <<pickerVars, chainVars, storeVars, trigVars, subOthers>>

(* line 267: send the subscription; send raises on a socket that is not    *)
(* connected                                                               *)
SubscribeSend ==
    /\ sub_pc = "send"
    /\ IF thread_pc = "open"
       THEN /\ Len(wire) < MaxWire
            /\ wire' = _send_subscribe(wire, conn, ws, sub_payload)
            /\ sub_pc' = "record"
       ELSE /\ sub_pc' = "raised"
            /\ UNCHANGED wire
    /\ UNCHANGED <<thread_pc, ws, is_authenticated, subscribed_symbols, conn,
                   close_called, at_drop, asked_since>>
    /\ UNCHANGED sub_payload
    /\ UNCHANGED <<pickerVars, chainVars, storeVars, trigVars, subOthers>>

(* line 268: record the subscription                                       *)
SubscribeRecord ==
    /\ sub_pc = "record"
    /\ subscribed_symbols' = subscribed_symbols \cup sub_payload
    /\ asked_since' = asked_since \cup sub_payload
    /\ sub_pc' = "returned"
    /\ UNCHANGED <<thread_pc, ws, is_authenticated, conn, wire, close_called, at_drop>>
    /\ UNCHANGED sub_payload
    /\ UNCHANGED <<pickerVars, chainVars, storeVars, trigVars, subOthers>>

(* the caller goes on after the call returned or raised                    *)
SubscribeDone ==
    /\ sub_pc \in {"returned", "raised"}
    /\ sub_pc' = "idle"
    /\ sub_payload' = {}
    /\ UNCHANGED wsVars
    /\ UNCHANGED <<pickerVars, chainVars, storeVars, trigVars, subOthers>>

InitSubRace ==
    /\ PickerIdle
    /\ option_chains = [t \in Tickers |-> {}]
    /\ PromoIdle
    /\ ChainIdle /\ StoreIdle /\ WsIdle /\ TrigIdle
    /\ SubOthersIdle
    /\ sub_pc = "idle"
    /\ sub_payload = {}

NextSubRace ==
    \/ SubscribeBegin \/ SubscribeQueue \/ SubscribeSend \/ SubscribeRecord
    \/ SubscribeDone
    \/ RunBackground \/ Close
    \/ ThreadCreate \/ ConnectOpen \/ Teardown
    \/ ConnectionLost \/ OnStatus \/ OnBar

SpecSubRace == InitSubRace /\ [][NextSubRace]_vars

(* the channels sent in subscribe messages on connection c                 *)
SentOn(w, c) ==
    UNION { w[i].params : i \in { j \in 1 .. Len(w) :
                w[j].conn = c /\ w[j].dir = "out" /\ w[j].action = "subscribe" } }

(* C28: once the subscribe call has returned and auth_success of the       *)
(* current connection has been processed, the requested channels have been *)
(* sent in a subscribe message on that connection.                         *)
RequestedSymbolsSent ==
    (sub_pc = "returned" /\ thread_pc = "open" /\ is_authenticated) =>
        sub_payload \subseteq SentOn(wire, conn)

(* a returned call whose channels are recorded but were not sent on the    *)
(* authenticated connection                                                *)
RecordedNeverSent ==
    /\ sub_pc = "returned" /\ thread_pc = "open" /\ is_authenticated
    /\ sub_payload \subseteq subscribed_symbols
    /\ sub_payload \cap SentOn(wire, conn) = {}

(***************************************************************************)
(* unsubscribe (ws_client.py 297-311) against the three subscribe variants *)
(* (252-295).  The calls are made one at a time here.                      *)
(***************************************************************************)
UnsubArgSet == {"a"}

(* subscribe / subscribe_stocks / subscribe_options as one call            *)
SubscribeAny(variant, sym) ==
    LET payload == {PayloadOf(variant, sym)}
    IN  /\ asked_since' = asked_since \cup payload
        /\ IF MustQueue(ws, is_authenticated)
           THEN /\ subscribed_symbols' = subscribed_symbols \cup payload
                /\ UNCHANGED wire
                /\ unsub_done' = unsub_done \ {UpperStrip(sym)}
           ELSE IF thread_pc = "open"
           THEN /\ Len(wire) < MaxWire
                /\ wire' = _send_subscribe(wire, conn, ws, payload)
                /\ subscribed_symbols' = subscribed_symbols \cup payload
                /\ unsub_done' = unsub_done \ {UpperStrip(sym)}
           ELSE \* send raises on the closed socket
                UNCHANGED <<wire, subscribed_symbols, unsub_done>>
        /\ UNCHANGED <<thread_pc, ws, is_authenticated, conn, close_called, at_drop>>
        /\ UNCHANGED <<pickerVars, chainVars, storeVars, trigVars, unsubOthers>>

SubscribeCall == \E variant \in SubscribeVariants, sym \in UnsubArgSet : SubscribeAny(variant, sym)

(* lines 299-300: the channel names unsubscribe builds                     *)
UnsubscribePayload(sym) == {"AM." \o UpperStrip(sym)}

(* unsubscribe(symbols), lines 297-311, the early return of line 303       *)
(* included                                                                *)
unsubscribe(sym) ==
    /\ IF ~ws \/ ~is_authenticated
       THEN /\ UNCHANGED <<wire, subscribed_symbols>>
            /\ unsub_done' = unsub_done \cup {UpperStrip(sym)}
       ELSE IF thread_pc = "open"
       THEN /\ Len(wire) < MaxWire
            /\ wire' = Append(wire, Msg(conn, "out", "unsubscribe", UnsubscribePayload(sym)))
            /\ subscribed_symbols' = subscribed_symbols \ UnsubscribePayload(sym)
            /\ unsub_done' = unsub_done \cup {UpperStrip(sym)}
       ELSE \* send raises on the closed socket
            UNCHANGED <<wire, subscribed_symbols, unsub_done>>
    /\ UNCHANGED <<thread_pc, ws, is_authenticated, conn, close_called, at_drop,
                   asked_since>>
    /\ UNCHANGED <<pickerVars, chainVars, storeVars, trigVars, unsubOthers>>

UnsubscribeCall == \E sym \in UnsubArgSet : unsubscribe(sym)

InitUnsub ==
    /\ PickerIdle
    /\ option_chains = [t \in Tickers |-> {}]
    /\ PromoIdle
    /\ ChainIdle /\ StoreIdle /\ WsIdle /\ TrigIdle
    /\ UnsubOthersIdle
    /\ unsub_done = {}

NextUnsub ==
    \/ SubscribeCall \/ UnsubscribeCall
    \/ RunBackground \/ Close
    \/ ThreadCreate \/ ConnectOpen \/ Teardown
    \/ ConnectionLost \/ OnStatus \/ OnBar

SpecUnsub == InitUnsub /\ [][NextUnsub]_vars

(* the channel names under which the subscribe variants record a symbol    *)
ChannelsOf(sym) == { PayloadOf(variant, sym) : variant \in SubscribeVariants }

(* C29: a symbol whose unsubscribe has returned, and that has not been      *)
(* subscribed again since, has no channel left in subscribed_symbols.      *)
UnsubscribedSymbolsGone ==
    \A sym \in unsub_done : ChannelsOf(sym) \cap subscribed_symbols = {}

(* the same for the channel subscribe() records, after an unsubscribe that *)
(* was sent: holds                                                         *)
UnsubscribeSentRemovesChannel ==
    [][\A sym \in UnsubArgSet :
          (unsubscribe(sym) /\ wire' # wire) =>
              UnsubscribePayload(sym) \cap subscribed_symbols' = {}]_vars

(***************************************************************************)
(* run_weekly_picker over the universe table (picker.py 441-449,           *)
(* store.py 1341-1371, universe.py 72-89).  No code of the repository sets *)
(* enabled to 0: a disabled entry is one the operator set in the database. *)
(***************************************************************************)
UniverseStates == {"absent", "enabled", "disabled"}

(* universe.get_universe: the canonical tickers, sorted                    *)
get_universe == TickerList

(* DB.upsert_universe: INSERT OR REPLACE with                              *)
(* COALESCE((SELECT enabled ...), 1)                                       *)
upsert_universe(table, rows) ==
    [t \in DOMAIN table |->
        IF \E i \in 1 .. Len(rows) : rows[i] = t
        THEN (IF table[t] = "absent" THEN "enabled" ELSE table[t])
        ELSE table[t]]

(* universe.sync_universe                                                  *)
sync_universe(table) == upsert_universe(table, get_universe)

(* DB.list_universe(enabled_only=True): ORDER BY ticker ASC                *)
RECURSIVE AscendingSeq(_)
AscendingSeq(S) ==
    IF S = {} THEN <<>>
    ELSE LET lo == CHOOSE t \in S : \A o \in S : t <= o
         IN  <<lo>> \o AscendingSeq(S \ {lo})

list_universe(table) == AscendingSeq({ t \in DOMAIN table : table[t] = "enabled" })

(* line 444: tickers = [t for t, _ in universe_rows] or get_universe()     *)
RunTickers(table) ==
    IF list_universe(table) # <<>> THEN list_universe(table) ELSE get_universe

(* lines 441-472: sync the universe, list the enabled tickers              *)
UniverseStart ==
    /\ pc = "idle"
    /\ \E n \in TopNSet : top_n' = n
    /\ universe' = sync_universe(universe)
    /\ run_tickers' = RunTickers(sync_universe(universe))
    /\ pc' = "loop"
    /\ idx' = 1
    /\ picks' = <<>>
    /\ UNCHANGED <<weekly_picks, weekly_pick_missing, audit_math, option_chains,
                   cur>>
    /\ UNCHANGED <<chainVars, storeVars, wsVars, trigVars, univOthers>>

(* one pass of the loop at lines 473-716 over tickers                      *)
UniverseIteration(pe, sc, ce, oldFresh) ==
    /\ pc = "loop"
    /\ idx <= Len(run_tickers)
    /\ LET n == TickerStep(LoopState(picks, weekly_pick_missing, audit_math,
                                     option_chains, cur),
                           run_tickers[idx], pe, sc, ce, oldFresh)
       IN  /\ weekly_pick_missing' = n.weekly_pick_missing
           /\ audit_math' = n.audit_math
           /\ picks' = n.picks
           /\ option_chains' = n.option_chains
           /\ cur' = n.cur
    /\ idx' = idx + 1
    /\ UNCHANGED <<pc, top_n, weekly_picks>>
    /\ UNCHANGED <<universe, run_tickers>>
    /\ UNCHANGED <<chainVars, storeVars, wsVars, trigVars, univOthers>>

UniverseTicker ==
    \E me \in MarketEnvSet, ce \in ChainEnvSet, oldFresh \in BOOLEAN :
        UniverseIteration(me.pe, me.sc, ce, oldFresh)

(* lines 718-735: rank and persist                                         *)
UniverseFinish ==
    /\ pc = "loop"
    /\ idx > Len(run_tickers)
    /\ picks' = Ranked(picks, top_n)
    /\ weekly_picks' = UpsertAll(weekly_picks, Ranked(picks, top_n), 1)
    /\ pc' = "done"
    /\ UNCHANGED <<top_n, idx, weekly_pick_missing, audit_math, option_chains,
                   cur>>
    /\ UNCHANGED <<universe, run_tickers>>
    /\ UNCHANGED <<chainVars, storeVars, wsVars, trigVars, univOthers>>

InitUniverse ==
    /\ PickerIdle
    /\ option_chains = [t \in Tickers |-> {}]
    /\ PromoIdle
    /\ ChainIdle /\ StoreIdle /\ WsIdle /\ TrigIdle
    /\ UnivOthersIdle
    /\ universe \in [Tickers -> UniverseStates]
    /\ run_tickers = <<>>

NextUniverse == UniverseStart \/ UniverseTicker \/ UniverseFinish

SpecUniverse == InitUniverse /\ [][NextUniverse]_vars

(* the tickers the run has written a pick or a miss row for                *)
WrittenTickers ==
    { r.ticker : r \in weekly_picks } \cup { m.ticker : m \in weekly_pick_missing }
    \cup { picks[i].ticker : i \in 1 .. Len(picks) }

(* C30: every ticker the run resolves, picks or miss-logs has an enabled   *)
(* universe entry.                                                         *)
OnlyEnabledTickersWritten ==
    \A t \in WrittenTickers : universe[t] = "enabled"

(* the same while at least one universe entry is enabled: holds            *)
OnlyEnabledWrittenUnlessNoneEnabled ==
    (\E t \in Tickers : universe[t] = "enabled") =>
        \A t \in WrittenTickers : universe[t] = "enabled"

(* the sync at the start of the run never re-enables a disabled ticker     *)
SyncKeepsDisabled ==
    [][\A t \in Tickers : universe[t] = "disabled" => universe'[t] = "disabled"]_vars
=============================================================================
